---------------------------- MODULE Spec2Model ----------------------------
(***************************************************************************)
(* A model of the token-metadata RAG pipeline: text chunking, batch        *)
(* embedding, vector upsert, hybrid ranking, context assembly, confidence  *)
(* scoring and the per-socket conversation sessions of the server.         *)
(*                                                                         *)
(* Strings the code inspects character by character are sequences of       *)
(* one-character strings; identifiers that are only compared or            *)
(* concatenated are TLA+ strings.  Scores are integers in hundredths       *)
(* (0.75 is 75); quotients that are not whole are kept as fractions        *)
(* <<numerator, denominator>>.                                             *)
(***************************************************************************)
EXTENDS Integers, Sequences, FiniteSets, TLC

VARIABLES
  \* splitTextIntoChunks / chunkTokenMetadata (utils/chunking.ts)
  ck_pc,        \* "idle" | "loop" | "exit" | "done"
  ck_token,     \* the token being chunked, or NoToken for a direct call
  ck_text,      \* text
  ck_size,      \* chunkSize
  ck_overlap,   \* overlap
  ck_start,     \* start
  ck_chunks,    \* chunks (before the final filter)
  ck_out,       \* the array splitTextIntoChunks returned
  ck_frags,     \* the ChunkedData[] chunkTokenMetadata returned
  \* ChatbotServer socket sessions (server.ts)
  sockets,      \* socket id -> "new" | "connected" | "closed"
  sessions,     \* keys of the this.sessions map
  history,      \* socket id -> conversationHistory of its session object
  inflight,     \* socket id -> chatMessage handlers suspended at their await
  lastEmit,     \* socket id -> the last event emitted to the socket
  appended,     \* socket id -> every message ever pushed (for the properties)
  failures,     \* number of failed cycles so far (bounded)
  quota,        \* the bounds of this run: messages per socket, handlers in flight
  \* ChatbotService.indexTokenMetadata: processChunkedData, then
  \* upsertEmbeddings (embeddingService.ts, vectorSearchService.ts)
  ix_pc,        \* position in the indexing call
  ix_provider,  \* "openai" (HTTP embedding service) | "local" (local model)
  ix_chunks,    \* chunks: the ChunkedData[] being indexed
  em_i,         \* i of generateBatchEmbeddings
  em_results,   \* results / embeddings of generateBatchEmbeddings
  em_requests,  \* embedding requests issued: [first, size, status]
  ix_paired,    \* the EmbeddingResult[] processChunkedData returned
  up_i,         \* i of upsertEmbeddings
  upsertedCount,\* upsertedCount of upsertEmbeddings
  up_requests,  \* index.upsert calls issued: [first, size, status]
  store,        \* the vectors the vector store holds
  up_response,  \* the UpsertResponse returned
  ix_result,    \* the IndexingResult returned
  \* VectorSearchService.hybridSearch (vectorSearchService.ts)
  hs_pc,        \* "idle" | "searching" | "done" | "failed"
  hs_query,     \* query
  hs_topK,      \* topK
  hs_requested, \* the topK of the searchSimilar request
  hs_semantic,  \* semanticResults
  hs_out,       \* the SimilarityResult[] returned
  \* ChatbotService.prepareContext (chatbotService.ts)
  cx_pc,        \* "idle" | "done"
  cx_results,   \* results
  cx_max,       \* config.embedding.maxContextLength
  cx_parts,     \* contextParts when the loop is left
  cx_out,       \* the string returned
  \* ChatbotService.calculateConfidence (chatbotService.ts)
  cf_calls,     \* number of calls so far
  cf_results,   \* the scores of results in the last call
  cf_conf,      \* the confidence it returned, a fraction of hundredths
  \* ChatbotService.searchToken (chatbotService.ts)
  st_pc,        \* position in searchToken
  st_identifier,\* identifier
  st_calls,     \* the external calls issued so far, in order
  st_results,   \* results
  st_out,       \* the SimilarityResult[] returned
  \* POST /api/index and POST /api/chat (server.ts)
  rq_pc,        \* position of the request handler
  rq_route,     \* "index" | "chat" | "none"
  rq_body,      \* req.body: [tokens |-> ...] or [query |-> ...]
  rq_calls,     \* external calls issued for the request, in order
  rq_status,    \* HTTP status of the response, 0 before it
  rq_indexed,   \* chunk ids held by the vector store
  rq_before,    \* chunk ids held when the request arrived
  rq_count,     \* requests handled so far
  \* VectorSearchService.initializeIndex / waitForIndexReady
  \* (vectorSearchService.ts)
  ei_pc,        \* position in initializeIndex
  ei_dimension, \* dimension
  ei_remote,    \* the indexes the vector store holds
  ei_listed,    \* indexExists: "unknown" | "exists" | "absent"
  ei_calls,     \* listIndexes / createIndex calls of this invocation
  ei_probes,    \* describeIndexStats calls of this invocation
  ei_i,         \* i of waitForIndexReady
  ei_error,     \* what the invocation threw: "none" | "list" | "create" | "timeout"
  ei_round,     \* invocations of initializeIndex so far
  ei_created,   \* createIndex calls that succeeded so far
  \* Process start: main / ChatbotServer.initialize / start (index.ts,
  \* server.ts) and the serverless app with initializeServices (api)
  su_pc,        \* position of the start-up
  su_entry,     \* "none" | "server" | "serverless"
  su_env,       \* the required environment variables that are set
  su_validated, \* validateConfig has passed
  su_initialized,\* chatbotService.initialize() has resolved
  su_service,   \* serverless: chatbotService is "null" | "set"
  su_reqs,      \* request -> "none" | "init" | "handling" | "ok" | "error"
  su_exit,      \* exit code of the process, -1 while it runs
  \* EmbeddingService.calculateCosineSimilarity (embeddingService.ts)
  cs_pc,        \* "idle" | "done"
  cs_a,         \* vecA
  cs_b,         \* vecB
  cs_out,       \* [threw, divided, value]: the outcome of the call
  \* Indexing one entity, retrieving its fragments and assembling the
  \* context (chunking.ts, embeddingService.ts, vectorSearchService.ts,
  \* chatbotService.ts)
  ee_pc,        \* "idle" | "indexed" | "done"
  ee_chunks,    \* the ChunkedData[] of the entity
  ee_store,     \* the vectors the store holds
  ee_results,   \* the SimilarityResult[] of the retrieval, in score order
  ee_out,       \* the context string prepareContext returned
  \* Lengths of the vectors sent to the store (vectorSearchService.ts,
  \* embeddingService.ts)
  dm_embedder,   \* the embedding service constructed, or NoEmbedder
  dm_dimension,  \* the dimension the index was created with, 0 before
  dm_sent,       \* the store calls made: operation and vector length
  \* processQuery (chatbotService.ts)
  pq_pc,        \* "idle" | "embedding" | "searching" | "completing" | "returned" | "thrown"
  pq_req,       \* number of the request being processed
  pq_steps,     \* the steps of the current request, in the order taken
  pq_calls,     \* the external calls of all requests: request, operation, status
  pq_outcome,   \* what the caller of the current request got: "none" | "response" | "error"
  \* One socket chat cycle after another, up to the completion request
  \* (server.ts, chatbotService.ts)
  cv_pc,        \* "idle" | "processing" | "completing"
  cv_cycle,     \* number of the current cycle
  cv_history,   \* session.conversationHistory
  cv_query,     \* the query of the current cycle
  cv_enhanced,  \* the enhanced query
  cv_mentions,  \* the symbols named in the enhancement note, in order
  cv_messages   \* the message list of the completion request

chunkVars == <<ck_pc, ck_token, ck_text, ck_size, ck_overlap, ck_start,
               ck_chunks, ck_out, ck_frags>>

sessVars == <<sockets, sessions, history, inflight, lastEmit, appended, failures,
              quota>>

indexVars == <<ix_pc, ix_provider, ix_chunks, em_i, em_results, em_requests,
               ix_paired, up_i, upsertedCount, up_requests, store, up_response,
               ix_result>>

hybridVars == <<hs_pc, hs_query, hs_topK, hs_requested, hs_semantic, hs_out>>

contextVars == <<cx_pc, cx_results, cx_max, cx_parts, cx_out>>

confVars == <<cf_calls, cf_results, cf_conf>>

lookupVars == <<st_pc, st_identifier, st_calls, st_results, st_out>>

requestVars == <<rq_pc, rq_route, rq_body, rq_calls, rq_status, rq_indexed,
                 rq_before, rq_count>>

ensureVars == <<ei_pc, ei_dimension, ei_remote, ei_listed, ei_calls,
                ei_probes, ei_i, ei_error, ei_round, ei_created>>

startVars == <<su_pc, su_entry, su_env, su_validated, su_initialized,
               su_service, su_reqs, su_exit>>

cosineVars == <<cs_pc, cs_a, cs_b, cs_out>>

endToEndVars == <<ee_pc, ee_chunks, ee_store, ee_results, ee_out>>

dimVars == <<dm_embedder, dm_dimension, dm_sent>>

queryVars == <<pq_pc, pq_req, pq_steps, pq_calls, pq_outcome>>

conversationVars == <<cv_pc, cv_cycle, cv_history, cv_query, cv_enhanced,
                      cv_mentions, cv_messages>>

vars == <<chunkVars, sessVars, indexVars, hybridVars, contextVars, confVars,
          lookupVars, requestVars, ensureVars, startVars, cosineVars,
          endToEndVars, dimVars, queryVars, conversationVars>>

\* What the actions of one component leave alone: the other components
notChunk == <<sessVars, indexVars, hybridVars, contextVars, confVars,
              lookupVars, requestVars, ensureVars, startVars, cosineVars,
              endToEndVars, dimVars, queryVars, conversationVars>>

notSess == <<chunkVars, indexVars, hybridVars, contextVars, confVars,
             lookupVars, requestVars, ensureVars, startVars, cosineVars,
             endToEndVars, dimVars, queryVars, conversationVars>>

notIndex == <<chunkVars, sessVars, hybridVars, contextVars, confVars,
              lookupVars, requestVars, ensureVars, startVars, cosineVars,
              endToEndVars, dimVars, queryVars, conversationVars>>

notHybrid == <<chunkVars, sessVars, indexVars, contextVars, confVars,
               lookupVars, requestVars, ensureVars, startVars, cosineVars,
               endToEndVars, dimVars, queryVars, conversationVars>>

notContext == <<chunkVars, sessVars, indexVars, hybridVars, confVars,
                lookupVars, requestVars, ensureVars, startVars, cosineVars,
                endToEndVars, dimVars, queryVars, conversationVars>>

notConf == <<chunkVars, sessVars, indexVars, hybridVars, contextVars,
             lookupVars, requestVars, ensureVars, startVars, cosineVars,
             endToEndVars, dimVars, queryVars, conversationVars>>

notLookup == <<chunkVars, sessVars, indexVars, hybridVars, contextVars,
               confVars, requestVars, ensureVars, startVars, cosineVars,
               endToEndVars, dimVars, queryVars, conversationVars>>

notRequest == <<chunkVars, sessVars, indexVars, hybridVars, contextVars,
                confVars, lookupVars, ensureVars, startVars, cosineVars,
                endToEndVars, dimVars, queryVars, conversationVars>>

notEnsure == <<chunkVars, sessVars, indexVars, hybridVars, contextVars,
               confVars, lookupVars, requestVars, startVars, cosineVars,
               endToEndVars, dimVars, queryVars, conversationVars>>

notStart == <<chunkVars, sessVars, indexVars, hybridVars, contextVars,
              confVars, lookupVars, requestVars, ensureVars, cosineVars,
              endToEndVars, dimVars, queryVars, conversationVars>>

notCosine == <<chunkVars, sessVars, indexVars, hybridVars, contextVars,
               confVars, lookupVars, requestVars, ensureVars, startVars,
               endToEndVars, dimVars, queryVars, conversationVars>>

notEndToEnd == <<chunkVars, sessVars, indexVars, hybridVars, contextVars,
                 confVars, lookupVars, requestVars, ensureVars, startVars,
                 cosineVars, dimVars, queryVars, conversationVars>>

notDim == <<chunkVars, sessVars, indexVars, hybridVars, contextVars,
            confVars, lookupVars, requestVars, ensureVars, startVars,
            cosineVars, endToEndVars, queryVars, conversationVars>>

notQuery == <<chunkVars, sessVars, indexVars, hybridVars, contextVars,
              confVars, lookupVars, requestVars, ensureVars, startVars,
              cosineVars, endToEndVars, dimVars, conversationVars>>

notConversation == <<chunkVars, sessVars, indexVars, hybridVars, contextVars,
                     confVars, lookupVars, requestVars, ensureVars,
                     startVars, cosineVars, endToEndVars, dimVars, queryVars>>

-----------------------------------------------------------------------------
(* Generic helpers *)

Min(a, b) == IF a <= b THEN a ELSE b

Max(a, b) == IF a >= b THEN a ELSE b

\* All sequences over S of length 0..n
SeqsUpTo(S, n) == UNION {[1..k -> S] : k \in 0..n}

-----------------------------------------------------------------------------
(* JavaScript string primitives used by the code, on character sequences *)

IsSpace(c) == c \in {" ", "\n"}

\* String.prototype.substring(a, b): 0-based, end-exclusive, arguments
\* clamped to [0, length] and swapped when a > b
substring(s, a, b) ==
  LET ca == Max(0, Min(a, Len(s)))
      cb == Max(0, Min(b, Len(s)))
  IN  SubSeq(s, Min(ca, cb) + 1, Max(ca, cb))

\* String.prototype.lastIndexOf(c): 0-based index of the last c, or -1
lastIndexOf(s, c) ==
  LET hits == {i \in 1..Len(s) : s[i] = c}
  IN  IF hits = {} THEN -1
      ELSE (CHOOSE i \in hits : \A j \in hits : j <= i) - 1

\* String.prototype.trim()
trim(s) ==
  LET keep == {i \in 1..Len(s) : ~IsSpace(s[i])}
  IN  IF keep = {} THEN <<>>
      ELSE SubSeq(s, CHOOSE i \in keep : \A j \in keep : i <= j,
                     CHOOSE i \in keep : \A j \in keep : j <= i)

\* Array.prototype.join(sep) on an array of strings
RECURSIVE join(_, _)
join(parts, sep) ==
  IF Len(parts) = 0 THEN <<>>
  ELSE IF Len(parts) = 1 THEN parts[1]
  ELSE parts[1] \o sep \o join(Tail(parts), sep)

-----------------------------------------------------------------------------
(* utils/chunking.ts *)

\* Bounds of the chunking inputs
MaxTextLen == 7

MaxChunkSize == 6

MaxOverlap == 6

\* config.embedding.chunkSize and config.embedding.chunkOverlap when the
\* environment sets neither: the default arguments of the chunking functions
DefaultChunkSize == 1000

DefaultChunkOverlap == 200

NoToken == [id |-> "none"]

\* Texts with a space late in their first window of WordBreakChunkSize
\* characters: "aaaaaaaaa aaa" and "aaaaaaaaaa aa"
LongTexts ==
  {<<"a", "a", "a", "a", "a", "a", "a", "a", "a", " ", "a", "a", "a">>,
   <<"a", "a", "a", "a", "a", "a", "a", "a", "a", "a", " ", "a", "a">>}

\* Texts handed directly to splitTextIntoChunks
Texts == SeqsUpTo({"a", " "}, MaxTextLen) \cup LongTexts

\* The smallest chunkSize with a position past 80% that is not the last of
\* the window
WordBreakChunkSize == 11

ChunkSizes == (0..MaxChunkSize) \cup {WordBreakChunkSize, DefaultChunkSize}

Overlaps == (0..MaxOverlap) \cup {DefaultChunkOverlap}

\* TokenMetadata records: id, name, symbol and the optional description
\* ("" absent); the other optional fields are absent
Tokens ==
  [id : {"t1", "t2"},
   name : {<<"a">>, <<"a", " ", "a">>},
   symbol : {<<"A">>},
   description : {<<>>, <<"a", "a">>, <<"a", " ", " ", " ", " ", " ", " ", " ", "a">>}]

\* A test that lets every space of the window be a cutting point
anySpace(lastSpaceIndex, chunkSize) == lastSpaceIndex >= 0

\* lastSpaceIndex > chunkSize * 0.8
PastEighty(lastSpaceIndex, chunkSize) == 10 * lastSpaceIndex > 8 * chunkSize

\* The window [start, end) of one loop iteration, cut back to its last space
\* when the window does not reach the end of the text
windowChunk(text, start, chunkSize) ==
  LET end == Min(start + chunkSize, Len(text))
      chunk == substring(text, start, end)
      lastSpaceIndex == lastIndexOf(chunk, " ")
  IN  IF end < Len(text) /\ PastEighty(lastSpaceIndex, chunkSize)
      THEN substring(chunk, 0, lastSpaceIndex)
      ELSE chunk

\* start = Math.max(start + chunkSize - overlap, start + 1)
nextStart(start, chunkSize, overlap) ==
  Max(start + chunkSize - overlap, start + 1)

\* chunks.filter(chunk => chunk.length > 0)
filterNonEmpty(chunks) == SelectSeq(chunks, LAMBDA c : Len(c) > 0)

\* tokenMetadataToText: the labelled sections of the present fields, joined
\* by newlines
tokenMetadataToText(token) ==
  LET basic == <<"T", "o", "k", "e", "n", ":", " ">> \o token.name
                 \o <<" ", "(">> \o token.symbol \o <<")">>
      descr == <<"D", "e", "s", "c", "r", "i", "p", "t", "i", "o", "n", ":", " ">>
                 \o token.description
      sections == IF Len(token.description) > 0 THEN <<basic, descr>>
                  ELSE <<basic>>
  IN  join(sections, <<"\n">>)

\* `${token.id}-chunk-${index}`
chunkId(tokenId, index) == tokenId \o "-chunk-" \o ToString(index)

\* wrapChunks with a 1-based chunkIndex
wrapChunksOneBased(token, textChunks, fullText) ==
  [k \in 1..Len(textChunks) |->
     [id |-> chunkId(token.id, k),
      chunkIndex |-> k,
      totalChunks |-> Len(textChunks),
      content |-> textChunks[k],
      metadata |-> [tokenId |-> token.id,
                    tokenName |-> token.name,
                    tokenSymbol |-> token.symbol,
                    chunkType |-> "metadata",
                    originalLength |-> Len(fullText)]]]

\* textChunks.map((chunk, index) => ({...})) of chunkTokenMetadata
wrapChunks(token, textChunks, fullText) ==
  [k \in 1..Len(textChunks) |->
     [id |-> chunkId(token.id, k - 1),
      chunkIndex |-> k - 1,
      totalChunks |-> Len(textChunks),
      content |-> textChunks[k],
      metadata |-> [tokenId |-> token.id,
                    tokenName |-> token.name,
                    tokenSymbol |-> token.symbol,
                    chunkType |-> "metadata",
                    originalLength |-> Len(fullText)]]]

ChunkInit ==
  /\ ck_pc = "idle"
  /\ ck_token = NoToken
  /\ ck_text = <<>>
  /\ ck_size = 0
  /\ ck_overlap = 0
  /\ ck_start = 0
  /\ ck_chunks = <<>>
  /\ ck_out = <<>>
  /\ ck_frags = <<>>

\* splitTextIntoChunks entered with (text, chunkSize, overlap): the early
\* return of a text no longer than chunkSize, else the loop is set up
SplitEnter(token, text, chunkSize, overlap) ==
  /\ ck_token' = token
  /\ ck_text' = text
  /\ ck_size' = chunkSize
  /\ ck_overlap' = overlap
  /\ ck_start' = 0
  /\ ck_chunks' = <<>>
  /\ ck_frags' = <<>>
  /\ IF Len(text) <= chunkSize
     THEN ck_out' = <<text>> /\ ck_pc' = "returned"
     ELSE ck_out' = <<>> /\ ck_pc' = "loop"

\* A direct call of splitTextIntoChunks
CallSplit ==
  /\ ck_pc = "idle"
  /\ \E text \in Texts, chunkSize \in ChunkSizes, overlap \in Overlaps :
       SplitEnter(NoToken, text, chunkSize, overlap)
  /\ UNCHANGED notChunk

\* chunkTokenMetadata(token, chunkSize, overlap) up to its call of
\* splitTextIntoChunks
CallChunkToken ==
  /\ ck_pc = "idle"
  /\ \E token \in Tokens, chunkSize \in ChunkSizes, overlap \in Overlaps :
       SplitEnter(token, tokenMetadataToText(token), chunkSize, overlap)
  /\ UNCHANGED notChunk

\* One iteration of the while loop
SplitIter ==
  /\ ck_pc = "loop"
  /\ ck_start < Len(ck_text)
  /\ LET end == Min(ck_start + ck_size, Len(ck_text))
     IN  /\ ck_chunks' = Append(ck_chunks, trim(windowChunk(ck_text, ck_start, ck_size)))
         /\ IF end >= Len(ck_text)
            THEN ck_pc' = "exit" /\ ck_start' = ck_start
            ELSE ck_pc' = "loop" /\ ck_start' = nextStart(ck_start, ck_size, ck_overlap)
  /\ UNCHANGED <<ck_token, ck_text, ck_size, ck_overlap, ck_out, ck_frags>>
  /\ UNCHANGED notChunk

\* The loop is left (by break, or its condition is false) and the filtered
\* chunks are returned
SplitReturn ==
  /\ \/ ck_pc = "exit"
     \/ ck_pc = "loop" /\ ~(ck_start < Len(ck_text))
  /\ ck_out' = filterNonEmpty(ck_chunks)
  /\ ck_pc' = "returned"
  /\ UNCHANGED <<ck_token, ck_text, ck_size, ck_overlap, ck_start, ck_chunks, ck_frags>>
  /\ UNCHANGED notChunk

\* Back in the caller: chunkTokenMetadata wraps the strings, a direct call
\* is finished
ChunkFinish ==
  /\ ck_pc = "returned"
  /\ ck_frags' = IF ck_token = NoToken THEN <<>>
                 ELSE wrapChunks(ck_token, ck_out, ck_text)
  /\ ck_pc' = "done"
  /\ UNCHANGED <<ck_token, ck_text, ck_size, ck_overlap, ck_start, ck_chunks, ck_out>>
  /\ UNCHANGED notChunk

NextChunk ==
  \/ CallSplit
  \/ CallChunkToken
  \/ SplitIter
  \/ SplitReturn
  \/ ChunkFinish

-----------------------------------------------------------------------------
(* server.ts: socket sessions *)

\* Bounds of the session model
MaxAppended == 26

MaxShared == 4

MaxInFlight == 2

MaxFailures == 2

\* session.conversationHistory.length > 20, slice(-20)
HistoryCap == 20

Sockets == {"s1", "s2"}

\* Payloads of a chatMessage event: a query string, an empty string, or a
\* value that is not a string
Payloads ==
  {[type |-> "string", value |-> "hello"],
   [type |-> "string", value |-> ""],
   [type |-> "number", value |-> "7"],
   [type |-> "undefined", value |-> ""]}

\* !query || typeof query !== 'string'
InvalidQuery(query) == query.value = "" \/ query.type # "string"

\* Array.prototype.slice(-n)
sliceLast(arr, n) ==
  IF Len(arr) <= n THEN arr ELSE SubSeq(arr, Len(arr) - n + 1, Len(arr))

\* if (history.length > 20) history = history.slice(-20)
capHistory(h) == IF Len(h) > HistoryCap THEN sliceLast(h, HistoryCap) ELSE h

\* A ChatMessage; timestamp is the position of the message among those
\* created for its session
ChatMsg(role, content, s) ==
  [role |-> role, content |-> content, timestamp |-> Len(appended[s]) + 1]

\* The runs explored: one socket alone with a long conversation, one cycle
\* at a time; or two sockets with short conversations and overlapping
\* cycles
Quotas ==
  {[s1 |-> MaxAppended, s2 |-> 0, handlers |-> 1],
   [s1 |-> MaxShared, s2 |-> MaxShared, handlers |-> MaxInFlight]}

\* No socket may connect: the session component at rest
NoQuota == [s1 |-> 0, s2 |-> 0, handlers |-> 0]

\* One session object shared by every connection
firstSession(s) == "s1"

\* const session: SocketSession = {...} inside the connection callback: the
\* handlers of socket s close over the session created for s
sessionOf(s) == s

SessStart(q) ==
  /\ sockets = [s \in Sockets |-> "new"]
  /\ sessions = {}
  /\ history = [s \in Sockets |-> <<>>]
  /\ inflight = [s \in Sockets |-> {}]
  /\ lastEmit = [s \in Sockets |-> "none"]
  /\ appended = [s \in Sockets |-> <<>>]
  /\ failures = 0
  /\ quota = q

SessInit == \E q \in Quotas : SessStart(q)

\* io.on('connection'): a fresh session is registered under socket.id
Connect(s) ==
  /\ sockets[s] = "new"
  /\ quota[s] > 0
  /\ sockets' = [sockets EXCEPT ![s] = "connected"]
  /\ sessions' = sessions \cup {s}
  /\ history' = [history EXCEPT ![sessionOf(s)] = <<>>]
  /\ UNCHANGED <<inflight, lastEmit, appended, failures, quota>>
  /\ UNCHANGED notSess

\* chatMessage with an invalid query: an error is emitted and the handler
\* returns
ChatInvalid(s) ==
  /\ sockets[s] = "connected"
  /\ \E query \in Payloads :
       /\ InvalidQuery(query)
       /\ lastEmit' = [lastEmit EXCEPT ![s] = "error"]
  /\ UNCHANGED <<sockets, sessions, history, inflight, appended, failures, quota>>
  /\ UNCHANGED notSess

\* chatMessage with a valid query, up to the await of
\* processConversationalQuery: the user message is pushed
ChatStart(s) ==
  /\ sockets[s] = "connected"
  /\ Cardinality(inflight[s]) < quota.handlers
  /\ Len(appended[s]) < quota[s]
  /\ \E query \in Payloads :
       /\ ~InvalidQuery(query)
       /\ LET userMessage == ChatMsg("user", query.value, s)
          IN  /\ history' = [history EXCEPT ![sessionOf(s)] = Append(@, userMessage)]
              /\ appended' = [appended EXCEPT ![s] = Append(@, userMessage)]
              /\ inflight' = [inflight EXCEPT ![s] = @ \cup {userMessage.timestamp}]
  /\ UNCHANGED <<sockets, sessions, lastEmit, failures, quota>>
  /\ UNCHANGED notSess

\* processConversationalQuery resolved: the assistant message is pushed, the
\* history is cut to its last 20 entries and the response is emitted
ChatRespond(s) ==
  /\ \E h \in inflight[s] :
       LET assistantMessage == ChatMsg("assistant", "reply", s)
       IN  /\ history' = [history EXCEPT ![sessionOf(s)] =
                            capHistory(Append(@, assistantMessage))]
           /\ appended' = [appended EXCEPT ![s] = Append(@, assistantMessage)]
           /\ inflight' = [inflight EXCEPT ![s] = @ \ {h}]
  /\ lastEmit' = [lastEmit EXCEPT ![s] = "chatResponse"]
  /\ UNCHANGED <<sockets, sessions, failures, quota>>
  /\ UNCHANGED notSess

\* processConversationalQuery rejected: the catch block emits an error
ChatFail(s) ==
  /\ failures < MaxFailures
  /\ \E h \in inflight[s] :
       inflight' = [inflight EXCEPT ![s] = @ \ {h}]
  /\ lastEmit' = [lastEmit EXCEPT ![s] = "error"]
  /\ failures' = failures + 1
  /\ UNCHANGED <<sockets, sessions, history, appended, quota>>
  /\ UNCHANGED notSess

\* socket.on('disconnect'): the session is removed from the registry
Disconnect(s) ==
  /\ sockets[s] = "connected"
  /\ sockets' = [sockets EXCEPT ![s] = "closed"]
  /\ sessions' = sessions \ {s}
  /\ UNCHANGED <<history, inflight, lastEmit, appended, failures, quota>>
  /\ UNCHANGED notSess

NextSession ==
  \E s \in Sockets :
    \/ Connect(s)
    \/ ChatInvalid(s)
    \/ ChatStart(s)
    \/ ChatRespond(s)
    \/ ChatFail(s)
    \/ Disconnect(s)

-----------------------------------------------------------------------------
(* embeddingService.ts *)

\* Bounds of the indexing inputs: the chunk counts are
\* b * (a batch size) + r for b in 0..MaxBatches and r in 0..MaxExtra, and
\* one less than a batch size; responses of at most MaxFullPerm items come
\* back in every order, longer ones in the orders of ResponseOrders
MaxBatches == 2

MaxExtra == 2

MaxFullPerm == 3

\* const BATCH_SIZE = 100 of the HTTP embedding service
EMBED_BATCH_SIZE == 100

\* const BATCH_SIZE = 10 of the local-model embedding service
LOCAL_BATCH_SIZE == 10

\* const BATCH_SIZE = 100 of upsertEmbeddings
UPSERT_BATCH_SIZE == 100

Providers == {"openai", "local"}

embedBatchSize(provider) ==
  IF provider = "openai" THEN EMBED_BATCH_SIZE ELSE LOCAL_BATCH_SIZE

ChunkCounts(batchSize) ==
  {b * batchSize + r : b \in 0..MaxBatches, r \in 0..MaxExtra}
    \cup {batchSize - 1}

\* The k-th chunk (1-based) of n chunks of one token: each has a text of its
\* own
chunkAt(k, n) ==
  [id |-> chunkId("t1", k - 1),
   chunkIndex |-> k - 1,
   totalChunks |-> n,
   content |-> <<"text", k>>,
   metadata |-> [tokenId |-> "t1", tokenName |-> "a", tokenSymbol |-> "A",
                 chunkType |-> "metadata", originalLength |-> n]]

chunksOf(n) == [k \in 1..n |-> chunkAt(k, n)]

\* The embedding provider's function from a text to its vector
embeddingOf(text) == <<"vector", text[2]>>

\* Array.prototype.slice(i, i + size) on a 0-based start
sliceBatch(arr, i, size) == SubSeq(arr, i + 1, Min(i + size, Len(arr)))

\* The orders in which the items of a response of m items may arrive: a
\* bijection from response position to input position
ResponseOrders(m) ==
  IF m <= MaxFullPerm
  THEN {f \in [1..m -> 1..m] : \A a, b \in 1..m : a # b => f[a] # f[b]}
  ELSE {[p \in 1..m |-> p],
        [p \in 1..m |-> m + 1 - p],
        [p \in 1..m |-> (p % m) + 1]}

\* response.data.data of the HTTP provider for a batch, in the given order:
\* item index is the 0-based position of its input
responseData(batch, order) ==
  [p \in 1..Len(batch) |->
     [index |-> order[p] - 1, embedding |-> embeddingOf(batch[order[p]])]]

\* The response left in arrival order
unsortedByIndex(data) == data

\* Array.prototype.sort((a, b) => a.index - b.index), a stable sort: an item
\* goes to the position given by the number of items that sort before it
sortByIndex(data) ==
  LET n == Len(data)
      rank == [j \in 1..n |->
                 Cardinality({q \in 1..n :
                    \/ data[q].index < data[j].index
                    \/ data[q].index = data[j].index /\ q < j}) + 1]
      at == [p \in 1..n |-> CHOOSE j \in 1..n : rank[j] = p]
  IN  [p \in 1..n |-> data[at[p]]]

\* sortedEmbeddings of the HTTP service
sortedEmbeddings(data) ==
  LET sorted == sortByIndex(data)
  IN  [p \in 1..Len(sorted) |-> sorted[p].embedding]

\* Promise.all(batch.map(text => this.generateEmbedding(text))) of the local
\* service: the calls settle in the given order, each value is stored at the
\* position of its promise
RECURSIVE promiseAll(_, _, _)
promiseAll(batch, order, settled) ==
  IF Len(order) = 0 THEN [p \in 1..Len(batch) |-> settled[p]]
  ELSE promiseAll(batch, Tail(order),
                  [settled EXCEPT ![Head(order)] = embeddingOf(batch[Head(order)])])

batchEmbeddings(provider, batch, order) ==
  IF provider = "openai"
  THEN sortedEmbeddings(responseData(batch, order))
  ELSE promiseAll(batch, order, [p \in 1..Len(batch) |-> <<"pending", 0>>])

\* chunks.map((chunk, index) => ({...})) of processChunkedData
pairChunks(chunks, embeddings) ==
  [k \in 1..Len(chunks) |->
     [id |-> chunks[k].id,
      embedding |-> IF k <= Len(embeddings) THEN embeddings[k] ELSE <<"undefined", 0>>,
      metadata |-> chunks[k].metadata,
      content |-> chunks[k].content]]

-----------------------------------------------------------------------------
(* vectorSearchService.ts: upsertEmbeddings *)

\* embeddings.map(embedding => ({id, values, metadata})): the vector
\* prepared for one EmbeddingResult
vectorOf(embedding) ==
  [id |-> embedding.id,
   values |-> embedding.embedding,
   metadata |-> [tokenId |-> embedding.metadata.tokenId,
                 tokenName |-> embedding.metadata.tokenName,
                 tokenSymbol |-> embedding.metadata.tokenSymbol,
                 chunkType |-> embedding.metadata.chunkType,
                 chunkIndex |-> 0,
                 totalChunks |-> IF embedding.metadata.originalLength # 0
                                 THEN embedding.metadata.originalLength ELSE 1,
                 originalLength |-> embedding.metadata.originalLength,
                 content |-> embedding.content]]

vectorsOf(embeddings) == [k \in 1..Len(embeddings) |-> vectorOf(embeddings[k])]

NoResponse == [success |-> FALSE, upsertedCount |-> -1, error |-> "none"]

NoResult == [success |-> FALSE, indexedTokens |-> -1, totalChunks |-> -1,
             error |-> "none"]

\* The UpsertResponse of the catch block of upsertEmbeddings
upsertFailure(count) ==
  [success |-> FALSE, upsertedCount |-> 0, error |-> "upsert failed"]

\* The UpsertResponse of a run whose batches all succeeded
upsertSuccess(count) ==
  [success |-> TRUE, upsertedCount |-> count, error |-> "none"]

\* The IndexingResult indexTokenMetadata builds from the UpsertResponse
\* (one token is indexed)
indexingResult(upsertResult, chunks) ==
  [success |-> upsertResult.success,
   indexedTokens |-> 1,
   totalChunks |-> Len(chunks),
   error |-> upsertResult.error]

\* The IndexingResult of the catch block of indexTokenMetadata
indexingFailure ==
  [success |-> FALSE, indexedTokens |-> 0, totalChunks |-> 0,
   error |-> "embedding failed"]

\* A pacing test that also holds after the last batch
moreBatchesInclusive(i, size, length) == i + size <= length

\* if (i + BATCH_SIZE < texts.length): a batch follows the one at i
moreBatches(i, size, length) == i + size < length

IndexInit ==
  /\ ix_pc = "idle"
  /\ ix_provider = "openai"
  /\ ix_chunks = <<>>
  /\ em_i = 0
  /\ em_results = <<>>
  /\ em_requests = <<>>
  /\ ix_paired = <<>>
  /\ up_i = 0
  /\ upsertedCount = 0
  /\ up_requests = <<>>
  /\ store = {}
  /\ up_response = NoResponse
  /\ ix_result = NoResult

\* indexTokenMetadata up to the first await inside
\* generateBatchEmbeddings: the chunks are made and the loop starts
IndexCall ==
  /\ ix_pc = "idle"
  /\ \E provider \in Providers :
       \E n \in ChunkCounts(embedBatchSize(provider)) :
         /\ ix_provider' = provider
         /\ ix_chunks' = chunksOf(n)
  /\ ix_pc' = "embedLoop"
  /\ UNCHANGED <<em_i, em_results, em_requests, ix_paired, up_i, upsertedCount,
                 up_requests, store, up_response, ix_result>>
  /\ UNCHANGED notIndex

\* The loop of generateBatchEmbeddings issues the request for the batch at i
EmbedIssue ==
  /\ ix_pc = "embedLoop"
  /\ em_i < Len(ix_chunks)
  /\ em_requests' = Append(em_requests,
       [first |-> em_i,
        size |-> Min(embedBatchSize(ix_provider), Len(ix_chunks) - em_i),
        status |-> "pending",
        inOrder |-> TRUE])
  /\ ix_pc' = "embedWait"
  /\ UNCHANGED <<ix_provider, ix_chunks, em_i, em_results, ix_paired, up_i,
                 upsertedCount, up_requests, store, up_response, ix_result>>
  /\ UNCHANGED notIndex

\* The request resolves with one item per input in some order: the
\* embeddings are appended and the loop delays or goes on
EmbedResolve ==
  /\ ix_pc = "embedWait"
  /\ LET size == embedBatchSize(ix_provider)
         texts == [k \in 1..Len(ix_chunks) |-> ix_chunks[k].content]
         batch == sliceBatch(texts, em_i, size)
     IN  /\ \E order \in ResponseOrders(Len(batch)) :
               /\ em_results' = em_results \o batchEmbeddings(ix_provider, batch, order)
               /\ em_requests' = [em_requests EXCEPT ![Len(em_requests)] =
                    [@ EXCEPT !.status = "done",
                              !.inOrder = \A p \in 1..Len(batch) : order[p] = p]]
         /\ IF moreBatches(em_i, size, Len(ix_chunks))
            THEN ix_pc' = "embedDelay" /\ em_i' = em_i
            ELSE ix_pc' = "embedLoop" /\ em_i' = em_i + size
  /\ UNCHANGED <<ix_provider, ix_chunks, ix_paired, up_i, upsertedCount,
                 up_requests, store, up_response, ix_result>>
  /\ UNCHANGED notIndex

\* The pacing delay between two embedding batches has elapsed
EmbedDelay ==
  /\ ix_pc = "embedDelay"
  /\ em_i' = em_i + embedBatchSize(ix_provider)
  /\ ix_pc' = "embedLoop"
  /\ UNCHANGED <<ix_provider, ix_chunks, em_results, em_requests, ix_paired, up_i,
                 upsertedCount, up_requests, store, up_response, ix_result>>
  /\ UNCHANGED notIndex

\* The request fails: the error leaves generateBatchEmbeddings and
\* processChunkedData and is caught by indexTokenMetadata
EmbedReject ==
  /\ ix_pc = "embedWait"
  /\ em_requests' = [em_requests EXCEPT ![Len(em_requests)].status = "failed"]
  /\ ix_result' = indexingFailure
  /\ ix_pc' = "done"
  /\ UNCHANGED <<ix_provider, ix_chunks, em_i, em_results, ix_paired, up_i,
                 upsertedCount, up_requests, store, up_response>>
  /\ UNCHANGED notIndex

\* generateBatchEmbeddings returns, processChunkedData pairs chunks and
\* embeddings, and upsertEmbeddings starts its loop
EmbedReturn ==
  /\ ix_pc = "embedLoop"
  /\ ~(em_i < Len(ix_chunks))
  /\ ix_paired' = pairChunks(ix_chunks, em_results)
  /\ up_i' = 0
  /\ upsertedCount' = 0
  /\ ix_pc' = "upsertLoop"
  /\ UNCHANGED <<ix_provider, ix_chunks, em_i, em_results, em_requests,
                 up_requests, store, up_response, ix_result>>
  /\ UNCHANGED notIndex

\* The loop of upsertEmbeddings issues index.upsert for the batch at i
UpsertIssue ==
  /\ ix_pc = "upsertLoop"
  /\ up_i < Len(ix_paired)
  /\ up_requests' = Append(up_requests,
       [first |-> up_i,
        size |-> Min(UPSERT_BATCH_SIZE, Len(ix_paired) - up_i),
        status |-> "pending"])
  /\ ix_pc' = "upsertWait"
  /\ UNCHANGED <<ix_provider, ix_chunks, em_i, em_results, em_requests, ix_paired,
                 up_i, upsertedCount, store, up_response, ix_result>>
  /\ UNCHANGED notIndex

\* index.upsert resolves: the batch is in the store and counted
UpsertResolve ==
  /\ ix_pc = "upsertWait"
  /\ LET batch == sliceBatch(vectorsOf(ix_paired), up_i, UPSERT_BATCH_SIZE)
     IN  /\ store' = store \cup {batch[k] : k \in 1..Len(batch)}
         /\ upsertedCount' = upsertedCount + Len(batch)
  /\ up_requests' = [up_requests EXCEPT ![Len(up_requests)].status = "done"]
  /\ IF moreBatches(up_i, UPSERT_BATCH_SIZE, Len(ix_paired))
     THEN ix_pc' = "upsertDelay" /\ up_i' = up_i
     ELSE ix_pc' = "upsertLoop" /\ up_i' = up_i + UPSERT_BATCH_SIZE
  /\ UNCHANGED <<ix_provider, ix_chunks, em_i, em_results, em_requests, ix_paired,
                 up_response, ix_result>>
  /\ UNCHANGED notIndex

\* The pacing delay between two upsert batches has elapsed
UpsertDelay ==
  /\ ix_pc = "upsertDelay"
  /\ up_i' = up_i + UPSERT_BATCH_SIZE
  /\ ix_pc' = "upsertLoop"
  /\ UNCHANGED <<ix_provider, ix_chunks, em_i, em_results, em_requests, ix_paired,
                 upsertedCount, up_requests, store, up_response, ix_result>>
  /\ UNCHANGED notIndex

\* index.upsert rejects: the catch block of upsertEmbeddings returns its
\* failure response and indexTokenMetadata returns
UpsertReject ==
  /\ ix_pc = "upsertWait"
  /\ up_requests' = [up_requests EXCEPT ![Len(up_requests)].status = "failed"]
  /\ up_response' = upsertFailure(upsertedCount)
  /\ ix_result' = indexingResult(upsertFailure(upsertedCount), ix_chunks)
  /\ ix_pc' = "done"
  /\ UNCHANGED <<ix_provider, ix_chunks, em_i, em_results, em_requests, ix_paired,
                 up_i, upsertedCount, store>>
  /\ UNCHANGED notIndex

\* The loop of upsertEmbeddings is over: the success response is returned
\* and indexTokenMetadata returns
UpsertReturn ==
  /\ ix_pc = "upsertLoop"
  /\ ~(up_i < Len(ix_paired))
  /\ up_response' = upsertSuccess(upsertedCount)
  /\ ix_result' = indexingResult(upsertSuccess(upsertedCount), ix_chunks)
  /\ ix_pc' = "done"
  /\ UNCHANGED <<ix_provider, ix_chunks, em_i, em_results, em_requests, ix_paired,
                 up_i, upsertedCount, up_requests, store>>
  /\ UNCHANGED notIndex

NextIndex ==
  \/ IndexCall
  \/ EmbedIssue
  \/ EmbedResolve
  \/ EmbedDelay
  \/ EmbedReject
  \/ EmbedReturn
  \/ UpsertIssue
  \/ UpsertResolve
  \/ UpsertDelay
  \/ UpsertReject
  \/ UpsertReturn

-----------------------------------------------------------------------------
(* vectorSearchService.ts: hybridSearch *)

\* Bounds of the search inputs
MaxTopK == 2

MaxCandidates == 3

\* boost += 0.1, in hundredths
KeywordBoost == 10

\* Math.min(..., 1.0), in hundredths
ScoreCap == 100

\* word.length > 2
MinKeywordLength == 2

\* String.prototype.toLowerCase() on one character
lowerChar(c) ==
  LET upper == <<"A", "B", "C", "D", "E", "F", "G", "H", "I", "J", "K", "L", "M",
                 "N", "O", "P", "Q", "R", "S", "T", "U", "V", "W", "X", "Y", "Z">>
      lower == <<"a", "b", "c", "d", "e", "f", "g", "h", "i", "j", "k", "l", "m",
                 "n", "o", "p", "q", "r", "s", "t", "u", "v", "w", "x", "y", "z">>
  IN  IF \E k \in 1..26 : upper[k] = c
      THEN lower[CHOOSE k \in 1..26 : upper[k] = c]
      ELSE c

\* String.prototype.toLowerCase()
toLowerCase(str) == [k \in 1..Len(str) |-> lowerChar(str[k])]

\* String.prototype.split(' '): the pieces between single spaces, empty
\* pieces included
RECURSIVE split(_)
split(str) ==
  LET spaces == {k \in 1..Len(str) : str[k] = " "}
  IN  IF spaces = {} THEN <<str>>
      ELSE LET first == CHOOSE k \in spaces : \A j \in spaces : k <= j
           IN  <<SubSeq(str, 1, first - 1)>> \o split(SubSeq(str, first + 1, Len(str)))

\* String.prototype.includes(part)
includes(str, part) ==
  \E k \in 1..(Len(str) - Len(part) + 1) : SubSeq(str, k, k + Len(part) - 1) = part

\* query.toLowerCase().split(' ').filter(word => word.length > 2)
keywordsOf(query) ==
  SelectSeq(split(toLowerCase(query)), LAMBDA word : Len(word) > MinKeywordLength)

\* boost of one result: 0.1 for each keyword its lowered content includes
boostOf(content, keywords) ==
  KeywordBoost * Cardinality({k \in 1..Len(keywords) :
                                includes(toLowerCase(content), keywords[k])})

\* The boosted score without its cap
uncappedScore(score, boost) == score + boost

\* Math.min(result.score + boost, 1.0)
boostedScore(score, boost) == Min(score + boost, ScoreCap)

\* semanticResults.map(result => ({...result, score: ...}))
boostedResults(semanticResults, query) ==
  [k \in 1..Len(semanticResults) |->
     [semanticResults[k] EXCEPT
        !.score = boostedScore(@, boostOf(semanticResults[k].content,
                                          keywordsOf(query)))]]

\* The results left in the order of the store's answer
keepStoreOrder(results) == results

\* Array.prototype.sort((a, b) => b.score - a.score), a stable sort
sortByScoreDesc(results) ==
  LET n == Len(results)
      rank == [j \in 1..n |->
                 Cardinality({q \in 1..n :
                    \/ results[q].score > results[j].score
                    \/ results[q].score = results[j].score /\ q < j}) + 1]
      at == [p \in 1..n |-> CHOOSE j \in 1..n : rank[j] = p]
  IN  [p \in 1..n |-> results[at[p]]]

\* Array.prototype.slice(0, n)
sliceFirst(arr, n) == SubSeq(arr, 1, Min(n, Len(arr)))

\* The queries and fragment contents of the search runs
QueryBtcPriceToday == <<"B", "T", "C", " ", "p", "r", "i", "c", "e", " ", "t", "o", "d", "a", "y">>

ContentBtcIsUp == <<"B", "T", "C", " ", "i", "s", " ", "u", "p">>

ContentEthGasFee == <<"e", "t", "h", " ", "g", "a", "s", " ", "f", "e", "e">>

Queries ==
  {QueryBtcPriceToday,
   <<"i", "s", " ", "B", "T", "C", " ", "u", "p">>,
   <<"B", "T", "C", " ", "b", "t", "c", " ", "g", "a", "s">>,
   <<"e", "t", "h", " ", " ", "f", "e", "e">>,
   <<>>}

Contents ==
  {ContentBtcIsUp,
   ContentEthGasFee,
   <<"B", "i", "t", "c", "o", "i", "n", " ", "(", "b", "t", "c", ")", " ", "p", "r", "i", "c", "e">>}

Scores == {0, 60, 75, 95}

\* What the store may answer to a query for at most `limit` matches: matches
\* in non-increasing score order, the k-th being vector k of the answer
StoreAnswers(limit) ==
  LET raw == UNION {[1..n -> Scores \X Contents] : n \in 0..Min(limit, MaxCandidates)}
      ordered == {m \in raw : \A k \in 1..(Len(m) - 1) : m[k][1] >= m[k + 1][1]}
  IN  {[k \in 1..Len(m) |->
          [id |-> k, score |-> m[k][1], content |-> m[k][2],
           metadata |-> [tokenId |-> "t1", chunkIndex |-> 0, content |-> m[k][2]]]]
       : m \in ordered}

HybridInit ==
  /\ hs_pc = "idle"
  /\ hs_query = <<>>
  /\ hs_topK = 0
  /\ hs_requested = 0
  /\ hs_semantic = <<>>
  /\ hs_out = <<>>

\* hybridSearch(queryEmbedding, query, topK) up to the await of
\* searchSimilar(queryEmbedding, topK * 2)
HybridCall ==
  /\ hs_pc = "idle"
  /\ \E query \in Queries, topK \in 1..MaxTopK :
       /\ hs_query' = query
       /\ hs_topK' = topK
       /\ hs_requested' = topK * 2
  /\ hs_pc' = "searching"
  /\ UNCHANGED <<hs_semantic, hs_out>>
  /\ UNCHANGED notHybrid

\* searchSimilar resolves: the matches are boosted, sorted again and cut to
\* topK
HybridResolve ==
  /\ hs_pc = "searching"
  /\ \E matches \in StoreAnswers(hs_requested) :
       /\ hs_semantic' = matches
       /\ hs_out' = sliceFirst(sortByScoreDesc(boostedResults(matches, hs_query)),
                               hs_topK)
  /\ hs_pc' = "done"
  /\ UNCHANGED <<hs_query, hs_topK, hs_requested>>
  /\ UNCHANGED notHybrid

\* searchSimilar rejects: the error is logged and thrown again
HybridReject ==
  /\ hs_pc = "searching"
  /\ hs_pc' = "failed"
  /\ UNCHANGED <<hs_query, hs_topK, hs_requested, hs_semantic, hs_out>>
  /\ UNCHANGED notHybrid

NextHybrid ==
  \/ HybridCall
  \/ HybridResolve
  \/ HybridReject

-----------------------------------------------------------------------------
(* chatbotService.ts: prepareContext *)

\* Bounds of the context inputs
MaxResults == 3

MaxContextLength == 38

\* 'No relevant token information found.'
NoContextFound == <<"N", "o", " ", "r", "e", "l", "e", "v", "a", "n", "t", " ", "t", "o", "k", "e", "n", " ", "i", "n", "f", "o", "r", "m", "a", "t", "i", "o", "n", " ", "f", "o", "u", "n", "d", ".">>

\* The tokens the results belong to
ContextTokens ==
  {[tokenId |-> "t1", tokenName |-> <<"a">>, tokenSymbol |-> <<"A">>],
   [tokenId |-> "t2", tokenName |-> <<"b", "b">>, tokenSymbol |-> <<"B">>]}

\* The SimilarityResults prepareContext may be given
ContextResults ==
  {[metadata |-> [tokenId |-> t.tokenId, tokenName |-> t.tokenName,
                  tokenSymbol |-> t.tokenSymbol, chunkIndex |-> i],
    content |-> c] :
     t \in ContextTokens, i \in 0..1, c \in {<<"x">>, <<"y", "y", "y">>}}

\* `\n--- ${tokenName} (${tokenSymbol}) ---\n`
groupHeader(tokenName, tokenSymbol) ==
  <<"\n", "-", "-", "-", " ">> \o tokenName \o <<" ", "(">> \o tokenSymbol
    \o <<")", " ", "-", "-", "-", "\n">>

\* The keys of tokenGroups in insertion order: the token ids in order of
\* first appearance
groupKeys(results) ==
  LET firsts == SelectSeq([k \in 1..Len(results) |-> k],
                  LAMBDA k : \A j \in 1..(k - 1) :
                     results[j].metadata.tokenId # results[k].metadata.tokenId)
  IN  [g \in 1..Len(firsts) |-> results[firsts[g]].metadata.tokenId]

\* tokenGroups.get(tokenId): the results of one token in arrival order
groupOf(results, tokenId) ==
  SelectSeq(results, LAMBDA r : r.metadata.tokenId = tokenId)

\* Array.prototype.sort((a, b) => a.metadata.chunkIndex -
\* b.metadata.chunkIndex), a stable sort
sortByChunkIndex(results) ==
  LET n == Len(results)
      rank == [j \in 1..n |->
                 Cardinality({q \in 1..n :
                    \/ results[q].metadata.chunkIndex < results[j].metadata.chunkIndex
                    \/ /\ results[q].metadata.chunkIndex = results[j].metadata.chunkIndex
                       /\ q < j}) + 1]
      at == [p \in 1..n |-> CHOOSE j \in 1..n : rank[j] = p]
  IN  [p \in 1..n |-> results[at[p]]]

\* A test that lets every fragment in
neverOverflows(totalLength, tokenContext, addition, maxContextLength) == FALSE

\* if (totalLength + tokenContext.length + addition.length >
\* maxContextLength) break
overflows(totalLength, tokenContext, addition, maxContextLength) ==
  totalLength + Len(tokenContext) + Len(addition) > maxContextLength

\* The inner loop: fragments are added to tokenContext until one would pass
\* maxContextLength
RECURSIVE addFragments(_, _, _, _)
addFragments(tokenContext, sortedResults, totalLength, maxContextLength) ==
  IF Len(sortedResults) = 0 THEN tokenContext
  ELSE LET addition == Head(sortedResults).content \o <<"\n">>
       IN  IF overflows(totalLength, tokenContext, addition, maxContextLength)
           THEN tokenContext
           ELSE addFragments(tokenContext \o addition, Tail(sortedResults),
                             totalLength, maxContextLength)

\* tokenContext of one group
tokenBlock(results, tokenId, totalLength, maxContextLength) ==
  LET sortedResults == sortByChunkIndex(groupOf(results, tokenId))
      header == groupHeader(sortedResults[1].metadata.tokenName,
                            sortedResults[1].metadata.tokenSymbol)
  IN  addFragments(header, sortedResults, totalLength, maxContextLength)

\* The outer loop over the groups from group g on: a block that fits is
\* pushed, the first that does not ends the loop
RECURSIVE contextPartsFrom(_, _, _, _, _, _)
contextPartsFrom(results, keys, g, contextParts, totalLength, maxContextLength) ==
  IF g > Len(keys) THEN contextParts
  ELSE LET tokenContext == tokenBlock(results, keys[g], totalLength, maxContextLength)
       IN  IF totalLength + Len(tokenContext) <= maxContextLength
           THEN contextPartsFrom(results, keys, g + 1,
                                 Append(contextParts, tokenContext),
                                 totalLength + Len(tokenContext), maxContextLength)
           ELSE contextParts

contextParts(results, maxContextLength) ==
  contextPartsFrom(results, groupKeys(results), 1, <<>>, 0, maxContextLength)

\* prepareContext(results, query)
prepareContext(results, maxContextLength) ==
  IF Len(results) = 0 THEN NoContextFound
  ELSE join(contextParts(results, maxContextLength), <<"\n">>)

ContextInit ==
  /\ cx_pc = "idle"
  /\ cx_results = <<>>
  /\ cx_max = 0
  /\ cx_parts = <<>>
  /\ cx_out = <<>>

\* prepareContext is called with the results of a search under some
\* configured maxContextLength
PrepareContext ==
  /\ cx_pc = "idle"
  /\ \E results \in SeqsUpTo(ContextResults, MaxResults),
        maxContextLength \in 0..MaxContextLength :
       /\ cx_results' = results
       /\ cx_max' = maxContextLength
       /\ cx_parts' = IF Len(results) = 0 THEN <<>>
                      ELSE contextParts(results, maxContextLength)
       /\ cx_out' = prepareContext(results, maxContextLength)
  /\ cx_pc' = "done"
  /\ UNCHANGED notContext

NextContext == PrepareContext

-----------------------------------------------------------------------------
(* chatbotService.ts: calculateConfidence *)

\* Bound of the confidence inputs
MaxScored == 3

\* r.score > 0.8, in hundredths
HighQualityScore == 80

\* highQualityResults / 5
BonusDivisor == 5

\* Math.min(highQualityResults / 5, 0.2), in hundredths
BonusCap == 20

\* Math.min(avgScore + diversityBonus, 1.0), in hundredths
ConfidenceCap == 100

\* Fractions <<numerator, denominator>> with a positive denominator
FracAdd(a, b) == <<a[1] * b[2] + b[1] * a[2], a[2] * b[2]>>

FracLeq(a, b) == a[1] * b[2] <= b[1] * a[2]

FracMin(a, b) == IF FracLeq(a, b) THEN a ELSE b

\* results.reduce((sum, result) => sum + result.score, 0)
RECURSIVE sumScores(_)
sumScores(scores) ==
  IF Len(scores) = 0 THEN 0 ELSE Head(scores) + sumScores(Tail(scores))

\* results.filter(r => r.score > 0.8).length
highQualityResults(scores) ==
  Cardinality({k \in 1..Len(scores) : scores[k] > HighQualityScore})

\* diversityBonus with the count divided by 50
diversityBonusFiftieth(scores) ==
  FracMin(<<highQualityResults(scores) * ConfidenceCap, 10 * BonusDivisor>>,
          <<BonusCap, 1>>)

\* diversityBonus: Math.min(highQualityResults / 5, 0.2)
diversityBonus(scores) ==
  FracMin(<<highQualityResults(scores) * ConfidenceCap, BonusDivisor>>,
          <<BonusCap, 1>>)

\* avgScore + diversityBonus without the final cap
unclampedConfidence(avgScore, bonus) == FracAdd(avgScore, bonus)

\* Math.min(avgScore + diversityBonus, 1.0)
clampConfidence(avgScore, bonus) ==
  FracMin(FracAdd(avgScore, bonus), <<ConfidenceCap, 1>>)

\* calculateConfidence(results), on the scores of the results
calculateConfidence(scores) ==
  IF Len(scores) = 0 THEN <<0, 1>>
  ELSE clampConfidence(<<sumScores(scores), Len(scores)>>, diversityBonus(scores))

\* The scores of the results handed to calculateConfidence
ConfidenceScores == {0, 50, 80, 81, 90, 100}

ConfInit ==
  /\ cf_calls = 0
  /\ cf_results = <<>>
  /\ cf_conf = <<0, 1>>

\* calculateConfidence is called with the results of a search
CalculateConfidence ==
  /\ \E scores \in SeqsUpTo(ConfidenceScores, MaxScored) :
       /\ cf_results' = scores
       /\ cf_conf' = calculateConfidence(scores)
  /\ cf_calls' = Min(cf_calls + 1, 2)
  /\ UNCHANGED notConf

NextConf == CalculateConfidence

-----------------------------------------------------------------------------
(* chatbotService.ts: searchToken *)

\* Bound of the answers of one lookup
MaxMatches == 2

\* topK of the semantic fallback: searchSimilar(queryEmbedding, 10)
FallbackTopK == 10

Identifiers == {"XYZ", "btc", "t1"}

\* String.prototype.toUpperCase on the identifiers
toUpperCase(identifier) ==
  IF identifier = "btc" THEN "BTC" ELSE identifier

\* The matches a query of the vector store may come back with
LookupAnswers == SeqsUpTo({"m1", "m2", "m3"}, MaxMatches)

\* The next lookup tried whatever the previous one found
lookupAnyway(results) == TRUE

\* if (results.length === 0): the next lookup is tried
needsNextLookup(results) == Len(results) = 0

LookupInit ==
  /\ st_pc = "idle"
  /\ st_identifier = ""
  /\ st_calls = <<>>
  /\ st_results = <<>>
  /\ st_out = <<>>

\* searchToken(identifier) is called and issues searchByTokenSymbol
LookupCall ==
  /\ st_pc = "idle"
  /\ \E identifier \in Identifiers :
       /\ st_identifier' = identifier
       /\ st_calls' = <<[op |-> "searchByTokenSymbol",
                         arg |-> toUpperCase(identifier)]>>
  /\ st_pc' = "symbol"
  /\ UNCHANGED <<st_results, st_out>>
  /\ UNCHANGED notLookup

\* searchByTokenSymbol resolves: with no result searchByTokenId is issued,
\* otherwise searchToken returns
SymbolResolve ==
  /\ st_pc = "symbol"
  /\ \E answer \in LookupAnswers :
       /\ st_results' = answer
       /\ IF needsNextLookup(answer)
          THEN /\ st_calls' = Append(st_calls,
                    [op |-> "searchByTokenId", arg |-> st_identifier])
               /\ st_pc' = "id"
               /\ st_out' = st_out
          ELSE /\ st_pc' = "done"
               /\ st_out' = answer
               /\ st_calls' = st_calls
  /\ UNCHANGED st_identifier
  /\ UNCHANGED notLookup

\* searchByTokenId resolves: with no result generateQueryEmbedding is
\* issued, otherwise searchToken returns
IdResolve ==
  /\ st_pc = "id"
  /\ \E answer \in LookupAnswers :
       /\ st_results' = answer
       /\ IF needsNextLookup(answer)
          THEN /\ st_calls' = Append(st_calls,
                    [op |-> "generateQueryEmbedding", arg |-> st_identifier])
               /\ st_pc' = "embed"
               /\ st_out' = st_out
          ELSE /\ st_pc' = "done"
               /\ st_out' = answer
               /\ st_calls' = st_calls
  /\ UNCHANGED st_identifier
  /\ UNCHANGED notLookup

\* generateQueryEmbedding resolves and searchSimilar is issued
QueryEmbedResolve ==
  /\ st_pc = "embed"
  /\ st_calls' = Append(st_calls,
       [op |-> "searchSimilar", arg |-> ToString(FallbackTopK)])
  /\ st_pc' = "semantic"
  /\ UNCHANGED <<st_identifier, st_results, st_out>>
  /\ UNCHANGED notLookup

\* searchSimilar resolves and searchToken returns its results
SemanticResolve ==
  /\ st_pc = "semantic"
  /\ \E answer \in LookupAnswers :
       /\ st_results' = answer
       /\ st_out' = answer
  /\ st_pc' = "done"
  /\ UNCHANGED <<st_identifier, st_calls>>
  /\ UNCHANGED notLookup

\* Any awaited call rejects: searchToken has no catch, the error propagates
LookupReject ==
  /\ st_pc \in {"symbol", "id", "embed", "semantic"}
  /\ st_pc' = "failed"
  /\ UNCHANGED <<st_identifier, st_calls, st_results, st_out>>
  /\ UNCHANGED notLookup

NextLookup ==
  \/ LookupCall
  \/ SymbolResolve
  \/ IdResolve
  \/ QueryEmbedResolve
  \/ SemanticResolve
  \/ LookupReject

-----------------------------------------------------------------------------
(* server.ts: POST /api/index, POST /api/chat; dataLoader.ts *)

\* Bounds of the HTTP traffic
MaxTokens == 2

MaxRequests == 2

\* A missing field of a record
Missing == ""

\* Token records of a request body: well formed, or lacking one field
TokenRecords ==
  {[id |-> "t1", name |-> "a", symbol |-> "A"],
   [id |-> Missing, name |-> "a", symbol |-> "A"],
   [id |-> "t2", name |-> Missing, symbol |-> "B"],
   [id |-> "t2", name |-> "b", symbol |-> Missing]}

\* req.body.tokens: something that is not an array, or an array of records
NotAnArray == [kind |-> "object", items |-> <<>>]

TokenBodies ==
  {NotAnArray} \cup
  {[kind |-> "array", items |-> items] : items \in SeqsUpTo(TokenRecords, MaxTokens)}

\* validateTokenMetadata(token).valid on the required fields
validateTokenMetadata(token) ==
  /\ token.id # Missing
  /\ token.name # Missing
  /\ token.symbol # Missing

\* !Array.isArray(tokens) || tokens.length === 0
InvalidTokens(tokens) == tokens.kind # "array" \/ Len(tokens.items) = 0

\* The guard of POST /api/index with every record validated as well
InvalidTokensOrRecord(tokens) ==
  \/ tokens.kind # "array"
  \/ Len(tokens.items) = 0
  \/ \E k \in 1..Len(tokens.items) : ~validateTokenMetadata(tokens.items[k])

\* `${token.id}` in a template string
templateText(field) == IF field = Missing THEN "undefined" ELSE field

\* The chunk ids chunkTokenMetadataCollection gives for short token texts
chunkIdsOf(items) ==
  {chunkId(templateText(items[k].id), 0) : k \in 1..Len(items)}

RequestInit ==
  /\ rq_pc = "idle"
  /\ rq_route = "none"
  /\ rq_body = [query |-> [type |-> "undefined", value |-> ""]]
  /\ rq_calls = <<>>
  /\ rq_status = 0
  /\ rq_indexed = {}
  /\ rq_before = {}
  /\ rq_count = 0

\* A request arrives at one of the two routes
Arrive(route, body) ==
  /\ rq_pc \in {"idle", "done"}
  /\ rq_count < MaxRequests
  /\ rq_count' = rq_count + 1
  /\ rq_route' = route
  /\ rq_body' = body
  /\ rq_before' = rq_indexed

\* POST /api/index with a body the guard rejects: 400
ApiIndexInvalid ==
  /\ \E tokens \in TokenBodies :
       /\ InvalidTokens(tokens)
       /\ Arrive("index", [tokens |-> tokens])
  /\ rq_calls' = <<>>
  /\ rq_status' = 400
  /\ rq_pc' = "done"
  /\ UNCHANGED rq_indexed
  /\ UNCHANGED notRequest

\* POST /api/index with a body the guard accepts: indexTokenMetadata chunks
\* the tokens and issues the embedding request
ApiIndexStart ==
  /\ \E tokens \in TokenBodies :
       /\ ~InvalidTokens(tokens)
       /\ Arrive("index", [tokens |-> tokens])
  /\ rq_calls' = <<"embeddings">>
  /\ rq_status' = 0
  /\ rq_pc' = "indexEmbed"
  /\ UNCHANGED rq_indexed
  /\ UNCHANGED notRequest

\* The embeddings arrive and upsertEmbeddings issues index.upsert
ApiIndexEmbedded ==
  /\ rq_pc = "indexEmbed"
  /\ rq_calls' = Append(rq_calls, "upsert")
  /\ rq_pc' = "indexUpsert"
  /\ UNCHANGED <<rq_route, rq_body, rq_status, rq_indexed, rq_before, rq_count>>
  /\ UNCHANGED notRequest

\* index.upsert resolves: the vectors are stored and the result is sent
ApiIndexUpserted ==
  /\ rq_pc = "indexUpsert"
  /\ rq_indexed' = rq_indexed \cup chunkIdsOf(rq_body.tokens.items)
  /\ rq_status' = 200
  /\ rq_pc' = "done"
  /\ UNCHANGED <<rq_route, rq_body, rq_calls, rq_before, rq_count>>
  /\ UNCHANGED notRequest

\* The embedding request or index.upsert rejects: indexTokenMetadata
\* returns success false, which the route sends as its result
ApiIndexFail ==
  /\ rq_pc \in {"indexEmbed", "indexUpsert"}
  /\ rq_status' = 200
  /\ rq_pc' = "done"
  /\ UNCHANGED <<rq_route, rq_body, rq_calls, rq_indexed, rq_before, rq_count>>
  /\ UNCHANGED notRequest

\* POST /api/chat with a query the guard rejects: 400
ApiChatInvalid ==
  /\ \E query \in Payloads :
       /\ InvalidQuery(query)
       /\ Arrive("chat", [query |-> query])
  /\ rq_calls' = <<>>
  /\ rq_status' = 400
  /\ rq_pc' = "done"
  /\ UNCHANGED rq_indexed
  /\ UNCHANGED notRequest

\* POST /api/chat with a query the guard accepts: processQuery issues the
\* query embedding request
ApiChatStart ==
  /\ \E query \in Payloads :
       /\ ~InvalidQuery(query)
       /\ Arrive("chat", [query |-> query])
  /\ rq_calls' = <<"embeddings">>
  /\ rq_status' = 0
  /\ rq_pc' = "chatEmbed"
  /\ UNCHANGED rq_indexed
  /\ UNCHANGED notRequest

\* processQuery goes on to the vector query, then to the completion
ApiChatStep ==
  /\ \/ /\ rq_pc = "chatEmbed"
        /\ rq_calls' = Append(rq_calls, "query")
        /\ rq_pc' = "chatSearch"
     \/ /\ rq_pc = "chatSearch"
        /\ rq_calls' = Append(rq_calls, "completion")
        /\ rq_pc' = "chatComplete"
  /\ UNCHANGED <<rq_route, rq_body, rq_status, rq_indexed, rq_before, rq_count>>
  /\ UNCHANGED notRequest

\* The completion arrives and the response is sent
ApiChatCompleted ==
  /\ rq_pc = "chatComplete"
  /\ rq_status' = 200
  /\ rq_pc' = "done"
  /\ UNCHANGED <<rq_route, rq_body, rq_calls, rq_indexed, rq_before, rq_count>>
  /\ UNCHANGED notRequest

\* An awaited call of processQuery rejects: 500
ApiChatFail ==
  /\ rq_pc \in {"chatEmbed", "chatSearch", "chatComplete"}
  /\ rq_status' = 500
  /\ rq_pc' = "done"
  /\ UNCHANGED <<rq_route, rq_body, rq_calls, rq_indexed, rq_before, rq_count>>
  /\ UNCHANGED notRequest

NextRequest ==
  \/ ApiIndexInvalid
  \/ ApiIndexStart
  \/ ApiIndexEmbedded
  \/ ApiIndexUpserted
  \/ ApiIndexFail
  \/ ApiChatInvalid
  \/ ApiChatStart
  \/ ApiChatStep
  \/ ApiChatCompleted
  \/ ApiChatFail

-----------------------------------------------------------------------------
(* vectorSearchService.ts: initializeIndex, waitForIndexReady *)

\* Bound: invocations of initializeIndex in one run
MaxInitCalls == 2

\* waitForIndexReady(maxAttempts: number = 60)
MaxAttempts == 60

\* config.pinecone.indexName
IndexName == "token-metadata-index"

\* The dimensions getModelInfo reports (HTTP small, HTTP large, local model)
Dimensions == {384, 1536, 3072}

\* What the vector store may hold when the program starts
Remotes ==
  {{}, {[name |-> IndexName, dimension |-> 1536, metric |-> "cosine"]},
   {[name |-> "other-index", dimension |-> 384, metric |-> "cosine"]}}

\* The existence test with the listing ignored
indexNeverListed(remote, name) == FALSE

\* indexList.indexes?.some(index => index.name === this.indexName)
indexExists(remote, name) == \E index \in remote : index.name = name

\* The loop test with one attempt too many
attemptsLeftInclusive(i, maxAttempts) == i <= maxAttempts

\* i < maxAttempts
attemptsLeft(i, maxAttempts) == i < maxAttempts

ListCall == [op |-> "listIndexes", dimension |-> 0, metric |-> "none"]

\* this.pinecone.createIndex({name, dimension, metric: 'cosine', spec})
CreateCall(dimension) ==
  [op |-> "createIndex", dimension |-> dimension, metric |-> "cosine"]

EnsureStart(remote) ==
  /\ ei_pc = "idle"
  /\ ei_dimension = 0
  /\ ei_remote = remote
  /\ ei_listed = "unknown"
  /\ ei_calls = <<>>
  /\ ei_probes = 0
  /\ ei_i = 0
  /\ ei_error = "none"
  /\ ei_round = 0
  /\ ei_created = 0

EnsureInit == \E remote \in Remotes : EnsureStart(remote)

\* The vector store holds nothing yet
EnsureRest == EnsureStart({})

\* initializeIndex(dimension) is called and awaits listIndexes
InitializeIndex ==
  /\ ei_pc \in {"idle", "returned", "thrown"}
  /\ ei_round < MaxInitCalls
  /\ ei_round' = ei_round + 1
  /\ \E dimension \in Dimensions : ei_dimension' = dimension
  /\ ei_calls' = <<ListCall>>
  /\ ei_listed' = "unknown"
  /\ ei_probes' = 0
  /\ ei_i' = 0
  /\ ei_error' = "none"
  /\ ei_pc' = "listing"
  /\ UNCHANGED <<ei_remote, ei_created>>
  /\ UNCHANGED notEnsure

\* listIndexes resolves: an existing index is used, an absent one is
\* created
ListResolve ==
  /\ ei_pc = "listing"
  /\ IF indexExists(ei_remote, IndexName)
     THEN /\ ei_listed' = "exists"
          /\ ei_pc' = "returned"
          /\ ei_calls' = ei_calls
     ELSE /\ ei_listed' = "absent"
          /\ ei_pc' = "creating"
          /\ ei_calls' = Append(ei_calls, CreateCall(ei_dimension))
  /\ UNCHANGED <<ei_dimension, ei_remote, ei_probes, ei_i, ei_error, ei_round,
                 ei_created>>
  /\ UNCHANGED notEnsure

\* listIndexes rejects: the error is rethrown
ListReject ==
  /\ ei_pc = "listing"
  /\ ei_error' = "list"
  /\ ei_pc' = "thrown"
  /\ UNCHANGED <<ei_dimension, ei_remote, ei_listed, ei_calls, ei_probes, ei_i,
                 ei_round, ei_created>>
  /\ UNCHANGED notEnsure

\* createIndex resolves: the store holds the index and waitForIndexReady
\* starts with i = 0
CreateResolve ==
  /\ ei_pc = "creating"
  /\ ei_remote' = ei_remote \cup
       {[name |-> IndexName, dimension |-> ei_dimension, metric |-> "cosine"]}
  /\ ei_created' = ei_created + 1
  /\ ei_i' = 0
  /\ ei_pc' = "polling"
  /\ UNCHANGED <<ei_dimension, ei_listed, ei_calls, ei_probes, ei_error,
                 ei_round>>
  /\ UNCHANGED notEnsure

\* createIndex rejects: the error is rethrown
CreateReject ==
  /\ ei_pc = "creating"
  /\ ei_error' = "create"
  /\ ei_pc' = "thrown"
  /\ UNCHANGED <<ei_dimension, ei_remote, ei_listed, ei_calls, ei_probes, ei_i,
                 ei_round, ei_created>>
  /\ UNCHANGED notEnsure

\* The loop of waitForIndexReady issues describeIndexStats
ProbeIssue ==
  /\ ei_pc = "polling"
  /\ attemptsLeft(ei_i, MaxAttempts)
  /\ ei_probes' = ei_probes + 1
  /\ ei_pc' = "probing"
  /\ UNCHANGED <<ei_dimension, ei_remote, ei_listed, ei_calls, ei_i, ei_error,
                 ei_round, ei_created>>
  /\ UNCHANGED notEnsure

\* describeIndexStats resolves with statistics: waitForIndexReady returns
ProbeReady ==
  /\ ei_pc = "probing"
  /\ ei_pc' = "returned"
  /\ UNCHANGED <<ei_dimension, ei_remote, ei_listed, ei_calls, ei_probes, ei_i,
                 ei_error, ei_round, ei_created>>
  /\ UNCHANGED notEnsure

\* describeIndexStats rejects (or resolves with nothing): the error is
\* swallowed and the loop waits
ProbeNotReady ==
  /\ ei_pc = "probing"
  /\ ei_pc' = "waiting"
  /\ UNCHANGED <<ei_dimension, ei_remote, ei_listed, ei_calls, ei_probes, ei_i,
                 ei_error, ei_round, ei_created>>
  /\ UNCHANGED notEnsure

\* The delay between two probes has elapsed: i++
PollDelay ==
  /\ ei_pc = "waiting"
  /\ ei_i' = ei_i + 1
  /\ ei_pc' = "polling"
  /\ UNCHANGED <<ei_dimension, ei_remote, ei_listed, ei_calls, ei_probes,
                 ei_error, ei_round, ei_created>>
  /\ UNCHANGED notEnsure

\* The loop is left without a successful probe: throw new Error(...)
PollTimeout ==
  /\ ei_pc = "polling"
  /\ ~attemptsLeft(ei_i, MaxAttempts)
  /\ ei_error' = "timeout"
  /\ ei_pc' = "thrown"
  /\ UNCHANGED <<ei_dimension, ei_remote, ei_listed, ei_calls, ei_probes, ei_i,
                 ei_round, ei_created>>
  /\ UNCHANGED notEnsure

NextEnsure ==
  \/ InitializeIndex
  \/ ListResolve
  \/ ListReject
  \/ CreateResolve
  \/ CreateReject
  \/ ProbeIssue
  \/ ProbeReady
  \/ ProbeNotReady
  \/ PollDelay
  \/ PollTimeout

\* Calls to the vector store settle and timers fire
FairEnsure ==
  /\ WF_vars(ProbeIssue)
  /\ WF_vars(ProbeReady \/ ProbeNotReady)
  /\ WF_vars(PollDelay)
  /\ WF_vars(PollTimeout)

-----------------------------------------------------------------------------
(* config.ts: validateConfig; index.ts: main; server.ts: initialize,
   start; api: initializeServices *)

\* Bound: requests (HTTP or socket) arriving at the process
MaxArrivals == 2

Arrivals == 1..MaxArrivals

\* The environment variables validateConfig requires
RequiredKeys == {"OPENAI_API_KEY", "PINECONE_API_KEY", "PINECONE_ENVIRONMENT"}

\* const missing = required.filter(({ value }) => !value)
missing(env) == RequiredKeys \ env

\* if (!this.apiKey) throw new Error('OpenAI API key is required')
constructorThrows(env) == "OPENAI_API_KEY" \notin env

StartInit ==
  /\ su_pc = "idle"
  /\ su_entry = "none"
  /\ su_env = {}
  /\ su_validated = FALSE
  /\ su_initialized = FALSE
  /\ su_service = "null"
  /\ su_reqs = [r \in Arrivals |-> "none"]
  /\ su_exit = -1

\* The process is launched under some environment: main() of the server
\* constructs ChatbotServer, the serverless module exports its app
Launch ==
  /\ su_pc = "idle"
  /\ \E entry \in {"server", "serverless"}, env \in SUBSET RequiredKeys :
       /\ su_entry' = entry
       /\ su_env' = env
       /\ IF entry = "serverless"
          THEN su_pc' = "exported" /\ su_exit' = su_exit
          ELSE IF constructorThrows(env)
               THEN su_pc' = "exited" /\ su_exit' = 1
               ELSE su_pc' = "validating" /\ su_exit' = su_exit
  /\ UNCHANGED <<su_validated, su_initialized, su_service, su_reqs>>
  /\ UNCHANGED notStart

\* ChatbotServer.initialize: validateConfig exits the process when a
\* variable is missing, otherwise chatbotService.initialize() is awaited
ServerValidate ==
  /\ su_pc = "validating"
  /\ IF missing(su_env) # {}
     THEN su_pc' = "exited" /\ su_exit' = 1 /\ su_validated' = su_validated
     ELSE su_pc' = "initializing" /\ su_exit' = su_exit /\ su_validated' = TRUE
  /\ UNCHANGED <<su_entry, su_env, su_initialized, su_service, su_reqs>>
  /\ UNCHANGED notStart

\* chatbotService.initialize() resolves and main goes on to start()
ServerInitResolve ==
  /\ su_pc = "initializing"
  /\ su_initialized' = TRUE
  /\ su_pc' = "starting"
  /\ UNCHANGED <<su_entry, su_env, su_validated, su_service, su_reqs, su_exit>>
  /\ UNCHANGED notStart

\* chatbotService.initialize() rejects: main catches and exits
ServerInitReject ==
  /\ su_pc = "initializing"
  /\ su_pc' = "exited"
  /\ su_exit' = 1
  /\ UNCHANGED <<su_entry, su_env, su_validated, su_initialized, su_service,
                 su_reqs>>
  /\ UNCHANGED notStart

\* start(): this.server.listen
ServerListen ==
  /\ su_pc = "starting"
  /\ su_pc' = "listening"
  /\ UNCHANGED <<su_entry, su_env, su_validated, su_initialized, su_service,
                 su_reqs, su_exit>>
  /\ UNCHANGED notStart

\* The listening server handles a request or a socket connection
ServerAccept(r) ==
  /\ su_pc = "listening"
  /\ su_reqs[r] = "none"
  /\ su_reqs' = [su_reqs EXCEPT ![r] = "handling"]
  /\ UNCHANGED <<su_pc, su_entry, su_env, su_validated, su_initialized,
                 su_service, su_exit>>
  /\ UNCHANGED notStart

\* Serverless: a request arrives and its route calls initializeServices:
\* with no service yet one is constructed, assigned and its initialize()
\* awaited; with a service assigned the route goes on with it
LambdaArrive(r) ==
  /\ su_pc = "exported"
  /\ su_reqs[r] = "none"
  /\ IF su_service = "null"
     THEN IF constructorThrows(su_env)
          THEN su_reqs' = [su_reqs EXCEPT ![r] = "error"] /\ su_service' = su_service
          ELSE su_reqs' = [su_reqs EXCEPT ![r] = "init"] /\ su_service' = "set"
     ELSE su_reqs' = [su_reqs EXCEPT ![r] = "handling"] /\ su_service' = su_service
  /\ UNCHANGED <<su_pc, su_entry, su_env, su_validated, su_initialized, su_exit>>
  /\ UNCHANGED notStart

\* Serverless: the awaited initialize() resolves and the route goes on
LambdaInitResolve(r) ==
  /\ su_reqs[r] = "init"
  /\ su_initialized' = TRUE
  /\ su_reqs' = [su_reqs EXCEPT ![r] = "handling"]
  /\ UNCHANGED <<su_pc, su_entry, su_env, su_validated, su_service, su_exit>>
  /\ UNCHANGED notStart

\* Serverless: the awaited initialize() rejects: the route answers 500 and
\* chatbotService stays assigned
LambdaInitReject(r) ==
  /\ su_reqs[r] = "init"
  /\ su_reqs' = [su_reqs EXCEPT ![r] = "error"]
  /\ UNCHANGED <<su_pc, su_entry, su_env, su_validated, su_initialized,
                 su_service, su_exit>>
  /\ UNCHANGED notStart

\* The route has answered
Answer(r) ==
  /\ su_reqs[r] = "handling"
  /\ su_reqs' = [su_reqs EXCEPT ![r] = "ok"]
  /\ UNCHANGED <<su_pc, su_entry, su_env, su_validated, su_initialized,
                 su_service, su_exit>>
  /\ UNCHANGED notStart

ServerAcceptAny == \E r \in Arrivals : ServerAccept(r)

LambdaArriveAny == \E r \in Arrivals : LambdaArrive(r)

LambdaInitResolveAny == \E r \in Arrivals : LambdaInitResolve(r)

LambdaInitRejectAny == \E r \in Arrivals : LambdaInitReject(r)

AnswerAny == \E r \in Arrivals : Answer(r)

NextStart ==
  \/ Launch
  \/ ServerValidate
  \/ ServerInitResolve
  \/ ServerInitReject
  \/ ServerListen
  \/ ServerAcceptAny
  \/ LambdaArriveAny
  \/ LambdaInitResolveAny
  \/ LambdaInitRejectAny
  \/ AnswerAny

-----------------------------------------------------------------------------
(* embeddingService.ts: calculateCosineSimilarity *)

(* JavaScript numbers are binary floating point: every +, *, / and Math.sqrt
   gives the representable number nearest to the exact result (ties to the
   even significand).  The model keeps that rounding with a significand of
   Precision bits (the code's numbers have 53) and no exponent limit; a
   number is a fraction <<numerator, denominator>> whose denominator is a
   power of two. *)

\* Bounds: significand bits, and the length of the vectors
Precision == 6

MaxDim == 2

\* The components of the vectors
Components == {-2, 0, 2, 3}

Vectors == SeqsUpTo(Components, MaxDim)

RECURSIVE Pow2(_)
Pow2(k) == IF k = 0 THEN 1 ELSE 2 * Pow2(k - 1)

Abs(x) == IF x < 0 THEN -x ELSE x

\* The significand nearest to x / y, ties to even
nearest(x, y) ==
  LET m0 == x \div y
      rem == x % y
  IN  IF 2 * rem > y \/ (2 * rem = y /\ m0 % 2 = 1) THEN m0 + 1 ELSE m0

\* The number sign * m * 2^(-s)
scaledBack(sign, m, s) ==
  IF s >= 0 THEN <<sign * m, Pow2(s)>> ELSE <<sign * m * Pow2(-s), 1>>

\* The scale s at which n / den has Precision significant bits
scaleOf(n, den) ==
  CHOOSE s \in (-2 * Precision)..(2 * Precision) :
    IF s >= 0
    THEN Pow2(Precision - 1) * den <= n * Pow2(s) /\ n * Pow2(s) < Pow2(Precision) * den
    ELSE den <= n \div Pow2(Precision - 1 - s) /\ n \div Pow2(Precision - s) < den

roundAt(sign, n, den, s) ==
  IF s >= 0 THEN scaledBack(sign, nearest(n * Pow2(s), den), s)
  ELSE scaledBack(sign, nearest(n, den * Pow2(-s)), s)

\* The representable number nearest to num / den, ties to even
round(num, den) ==
  IF num = 0 THEN <<0, 1>>
  ELSE roundAt(IF num < 0 THEN -1 ELSE 1, Abs(num), den, scaleOf(Abs(num), den))

\* a + b, a * b and a / b of two numbers
fadd(a, b) == round(a[1] * b[2] + b[1] * a[2], a[2] * b[2])

fmul(a, b) == round(a[1] * b[1], a[2] * b[2])

fdiv(a, b) ==
  IF b[1] < 0 THEN round(-(a[1] * b[2]), a[2] * (-b[1]))
  ELSE round(a[1] * b[2], a[2] * b[1])

\* The scale s at which the square root of num / den has Precision
\* significant bits
rootScaleOf(num, den) ==
  CHOOSE s \in (-Precision)..Precision :
    IF s >= 0
    THEN /\ Pow2(2 * (Precision - 1)) * den <= num * Pow2(2 * s)
         /\ num * Pow2(2 * s) < Pow2(2 * Precision) * den
    ELSE /\ den <= num \div Pow2(2 * (Precision - 1 - s))
         /\ num \div Pow2(2 * (Precision - s)) < den

\* The significand m with (m - 1/2)^2 <= x / y <= (m + 1/2)^2, the even one
\* of two
nearestRoot(x, y) ==
  LET fits == {m \in (Pow2(Precision - 1) - 1)..Pow2(Precision) :
                 /\ (2 * m - 1) * (2 * m - 1) * y <= 4 * x
                 /\ 4 * x <= (2 * m + 1) * (2 * m + 1) * y}
  IN  IF Cardinality(fits) = 1 THEN CHOOSE c \in fits : TRUE
      ELSE CHOOSE c \in fits : c % 2 = 0

rootAt(num, den, s) ==
  IF s >= 0 THEN scaledBack(1, nearestRoot(num * Pow2(2 * s), den), s)
  ELSE scaledBack(1, nearestRoot(num, den * Pow2(-2 * s)), s)

\* Math.sqrt of a positive number
fsqrt(a) == rootAt(a[1], a[2], rootScaleOf(a[1], a[2]))

\* One iteration of the loop on the components a and b
accumulateStep(acc, a, b) ==
  [dotProduct |-> fadd(acc.dotProduct, fmul(a, b)),
   normA |-> fadd(acc.normA, fmul(a, a)),
   normB |-> fadd(acc.normB, fmul(b, b))]

\* The loop: dotProduct, normA and normB after the first k components
RECURSIVE accumulate(_, _, _)
accumulate(vecA, vecB, k) ==
  IF k = 0 THEN [dotProduct |-> <<0, 1>>, normA |-> <<0, 1>>, normB |-> <<0, 1>>]
  ELSE accumulateStep(accumulate(vecA, vecB, k - 1), <<vecA[k], 1>>, <<vecB[k], 1>>)

\* The guard of the division and the division
cosineOf(acc) ==
  IF acc.normA[1] = 0 \/ acc.normB[1] = 0
  THEN [threw |-> FALSE, divided |-> FALSE, value |-> <<0, 1>>]
  ELSE [threw |-> FALSE, divided |-> TRUE,
        value |-> fdiv(acc.dotProduct, fmul(fsqrt(acc.normA), fsqrt(acc.normB)))]

\* calculateCosineSimilarity(vecA, vecB)
calculateCosineSimilarity(vecA, vecB) ==
  IF Len(vecA) # Len(vecB)
  THEN [threw |-> TRUE, divided |-> FALSE, value |-> <<0, 1>>]
  ELSE cosineOf(accumulate(vecA, vecB, Len(vecA)))

CosineInit ==
  /\ cs_pc = "idle"
  /\ cs_a = <<>>
  /\ cs_b = <<>>
  /\ cs_out = [threw |-> FALSE, divided |-> FALSE, value |-> <<0, 1>>]

\* calculateCosineSimilarity is called on two vectors
CosineCall ==
  /\ cs_pc = "idle"
  /\ \E vecA \in Vectors, vecB \in Vectors :
       /\ cs_a' = vecA
       /\ cs_b' = vecB
       /\ cs_out' = calculateCosineSimilarity(vecA, vecB)
  /\ cs_pc' = "done"
  /\ UNCHANGED notCosine

NextCosine == CosineCall

-----------------------------------------------------------------------------
(* End to end: chunkTokenMetadata, processChunkedData, upsertEmbeddings,
   searchSimilar, prepareContext *)

\* Bound: fragments of the indexed entity
MaxFragments == 4

\* config.embedding.maxContextLength
DefaultMaxContextLength == 8000

\* The digit naming a fragment's position in its parent's text
Digits == <<"0", "1", "2", "3", "4", "5", "6", "7", "8", "9">>

\* The k-th fragment (1-based) of the n fragments of a token, as
\* chunkTokenMetadata builds it: its content names its position
fragmentAt(token, k, n) ==
  [id |-> chunkId(token.tokenId, k - 1),
   chunkIndex |-> k - 1,
   totalChunks |-> n,
   content |-> <<"f", Digits[k]>>,
   metadata |-> [tokenId |-> token.tokenId, tokenName |-> token.tokenName,
                 tokenSymbol |-> token.tokenSymbol, chunkType |-> "metadata",
                 originalLength |-> 3 * n]]

fragmentsOf(token, n) == [k \in 1..n |-> fragmentAt(token, k, n)]

\* searchResult.matches.map(match => ({id, score, metadata, content}))
resultOf(match, score) ==
  [id |-> match.id,
   score |-> score,
   metadata |-> match.metadata,
   content |-> match.metadata.content]

\* The answers of the store to a query: some of its vectors in some order
\* (the order of their scores)
Retrievals(vectors) ==
  LET n == Cardinality(vectors)
      lists == UNION {[1..m -> vectors] : m \in 1..n}
  IN  {l \in lists : \A a, b \in 1..Len(l) : a # b => l[a] # l[b]}

EndToEndInit ==
  /\ ee_pc = "idle"
  /\ ee_chunks = <<>>
  /\ ee_store = {}
  /\ ee_results = <<>>
  /\ ee_out = <<>>

\* indexTokenMetadata on one token: its fragments are embedded, paired and
\* upserted
IndexEntity ==
  /\ ee_pc = "idle"
  /\ \E token \in ContextTokens, n \in 2..MaxFragments :
       LET chunks == fragmentsOf(token, n)
           embeddings == [k \in 1..n |-> embeddingOf(chunks[k].content)]
           vectors == vectorsOf(pairChunks(chunks, embeddings))
       IN  /\ ee_chunks' = chunks
           /\ ee_store' = {vectors[k] : k \in 1..n}
  /\ ee_pc' = "indexed"
  /\ UNCHANGED <<ee_results, ee_out>>
  /\ UNCHANGED notEndToEnd

\* A query retrieves fragments of the entity in score order and
\* prepareContext assembles them
RetrieveAndAssemble ==
  /\ ee_pc = "indexed"
  /\ \E matches \in Retrievals(ee_store) :
       LET results == [k \in 1..Len(matches) |->
                         resultOf(matches[k], 100 - k)]
       IN  /\ ee_results' = results
           /\ ee_out' = prepareContext(results, DefaultMaxContextLength)
  /\ ee_pc' = "done"
  /\ UNCHANGED <<ee_chunks, ee_store>>
  /\ UNCHANGED notEndToEnd

NextEndToEnd ==
  \/ IndexEntity
  \/ RetrieveAndAssemble

-----------------------------------------------------------------------------
(* Vector lengths: getModelInfo, initializeIndex, upsertEmbeddings,
   searchSimilar, searchByTokenId, searchByTokenSymbol *)

\* Bound: store calls per run
MaxSent == 3

\* new Array(1536).fill(0)
DummyVectorLength == 1536

\* getModelInfo of the OpenAI service: 3072 : 1536
LargeDimensions == 3072

SmallDimensions == 1536

\* getModelInfo of the local service
LocalDimensions == 384

NoEmbedder == [service |-> "none", model |-> <<>>]

\* The embedding services and their models; a model name is the sequence of
\* its parts
Embedders ==
  {[service |-> "openai", model |-> <<"text", "embedding", "3", "small">>],
   [service |-> "openai", model |-> <<"text", "embedding", "3", "large">>],
   [service |-> "openai", model |-> <<"text", "embedding", "ada", "002">>],
   [service |-> "local", model |-> <<"Xenova", "all", "MiniLM", "L6", "v2">>]}

\* this.model.includes('large')
includesPart(model, part) == \E i \in 1..Len(model) : model[i] = part

\* EmbeddingService.getModelInfo().dimensions
getModelDimensions(embedder) ==
  IF embedder.service = "local"
    THEN LocalDimensions
    ELSE IF includesPart(embedder.model, "large") THEN LargeDimensions
                                               ELSE SmallDimensions

\* Length of the embedding the provider returns for one text
embeddingLength(embedder) ==
  IF embedder.service = "local"
    THEN 384
    ELSE IF embedder.model = <<"text", "embedding", "3", "large">> THEN 3072
                                                                  ELSE 1536

DimInit ==
  /\ dm_embedder = NoEmbedder
  /\ dm_dimension = 0
  /\ dm_sent = <<>>

\* new ChatbotService(): the embedding service is constructed
ConstructEmbedder ==
  /\ dm_embedder = NoEmbedder
  /\ dm_embedder' \in Embedders
  /\ UNCHANGED <<dm_dimension, dm_sent>>
  /\ UNCHANGED notDim

\* ChatbotService.initialize: the index is created with the dimension of
\* getModelInfo
CreateWithModelDimension ==
  /\ dm_embedder # NoEmbedder
  /\ dm_dimension = 0
  /\ dm_dimension' = getModelDimensions(dm_embedder)
  /\ UNCHANGED <<dm_embedder, dm_sent>>
  /\ UNCHANGED notDim

\* upsertEmbeddings: values: embedding.embedding
SendUpsert ==
  /\ dm_dimension # 0
  /\ Len(dm_sent) < MaxSent
  /\ dm_sent' = Append(dm_sent, [op |-> "upsert", length |-> embeddingLength(dm_embedder)])
  /\ UNCHANGED <<dm_embedder, dm_dimension>>
  /\ UNCHANGED notDim

\* searchSimilar: vector: queryEmbedding
SendSearchSimilar ==
  /\ dm_dimension # 0
  /\ Len(dm_sent) < MaxSent
  /\ dm_sent' = Append(dm_sent, [op |-> "searchSimilar", length |-> embeddingLength(dm_embedder)])
  /\ UNCHANGED <<dm_embedder, dm_dimension>>
  /\ UNCHANGED notDim

\* searchByTokenId: vector: new Array(1536).fill(0)
SendSearchByTokenId ==
  /\ dm_dimension # 0
  /\ Len(dm_sent) < MaxSent
  /\ dm_sent' = Append(dm_sent, [op |-> "searchByTokenId", length |-> DummyVectorLength])
  /\ UNCHANGED <<dm_embedder, dm_dimension>>
  /\ UNCHANGED notDim

\* searchByTokenSymbol: vector: new Array(1536).fill(0)
SendSearchByTokenSymbol ==
  /\ dm_dimension # 0
  /\ Len(dm_sent) < MaxSent
  /\ dm_sent' = Append(dm_sent, [op |-> "searchByTokenSymbol", length |-> DummyVectorLength])
  /\ UNCHANGED <<dm_embedder, dm_dimension>>
  /\ UNCHANGED notDim

NextDim ==
  \/ ConstructEmbedder
  \/ CreateWithModelDimension
  \/ SendUpsert
  \/ SendSearchSimilar
  \/ SendSearchByTokenId
  \/ SendSearchByTokenSymbol

-----------------------------------------------------------------------------
(* chatbotService.ts: processQuery *)

\* Bound: requests processed in one run
MaxQueries == 3

\* An always-successor that goes back to the embedding request
callAfterRestart(op) == "embeddings"

\* The external call processQuery issues when the call op has resolved:
\* generateQueryEmbedding, then hybridSearch, then generateResponse
callAfter(op) == IF op = "embeddings" THEN "query" ELSE "completion"

\* The await at which processQuery is suspended for an external call
awaitOf(op) ==
  IF op = "embeddings" THEN "embedding"
  ELSE IF op = "query" THEN "searching" ELSE "completing"

\* The local steps that precede the issue of an external call
stepsBefore(op) ==
  IF op = "embeddings" THEN <<"embed">>
  ELSE IF op = "query" THEN <<"query">>
  ELSE <<"rank", "assemble", "completion">>

PendingCall(op) == [req |-> pq_req, op |-> op, status |-> "pending"]

\* The status of the last call of the log becomes s
settleLast(calls, s) == [calls EXCEPT ![Len(calls)].status = s]

QueryInit ==
  /\ pq_pc = "idle"
  /\ pq_req = 0
  /\ pq_steps = <<>>
  /\ pq_calls = <<>>
  /\ pq_outcome = "none"

\* processQuery is called and awaits generateQueryEmbedding
ProcessQuery ==
  /\ pq_pc \in {"idle", "returned", "thrown"}
  /\ pq_req < MaxQueries
  /\ pq_req' = pq_req + 1
  /\ pq_steps' = stepsBefore("embeddings")
  /\ pq_calls' = Append(pq_calls, [req |-> pq_req + 1, op |-> "embeddings",
                                   status |-> "pending"])
  /\ pq_outcome' = "none"
  /\ pq_pc' = awaitOf("embeddings")
  /\ UNCHANGED notQuery

\* The embedding request or the vector query resolves: the next call is
\* issued (after ranking and assembling, for the completion)
CallResolve ==
  /\ pq_pc \in {"embedding", "searching"}
  /\ LET op == pq_calls[Len(pq_calls)].op
         next == callAfter(op)
     IN  /\ pq_steps' = pq_steps \o stepsBefore(next)
         /\ pq_calls' = Append(settleLast(pq_calls, "done"), PendingCall(next))
         /\ pq_pc' = awaitOf(next)
  /\ UNCHANGED <<pq_req, pq_outcome>>
  /\ UNCHANGED notQuery

\* The completion arrives with a choice: the ChatbotResponse is returned
CompletionResolve ==
  /\ pq_pc = "completing"
  /\ pq_calls' = settleLast(pq_calls, "done")
  /\ pq_outcome' = "response"
  /\ pq_pc' = "returned"
  /\ UNCHANGED <<pq_req, pq_steps>>
  /\ UNCHANGED notQuery

\* The awaited call rejects: the catch blocks rethrow up to the caller
CallReject ==
  /\ pq_pc \in {"embedding", "searching", "completing"}
  /\ pq_calls' = settleLast(pq_calls, "failed")
  /\ pq_outcome' = "error"
  /\ pq_pc' = "thrown"
  /\ UNCHANGED <<pq_req, pq_steps>>
  /\ UNCHANGED notQuery

\* The provider answers without data (no embedding, no choice): the
\* service throws
CallEmpty ==
  /\ pq_pc \in {"embedding", "completing"}
  /\ pq_calls' = settleLast(pq_calls, "empty")
  /\ pq_outcome' = "error"
  /\ pq_pc' = "thrown"
  /\ UNCHANGED <<pq_req, pq_steps>>
  /\ UNCHANGED notQuery

NextQuery ==
  \/ ProcessQuery
  \/ CallResolve
  \/ CompletionResolve
  \/ CallReject
  \/ CallEmpty

-----------------------------------------------------------------------------
(* server.ts chatMessage handler with processConversationalQuery,
   enhanceQueryWithContext and generateResponse *)

\* Bound: chat cycles of the socket
MaxCycles == 3

\* history.slice(-4)
RecentMessages == 4

\* conversationHistory.slice(-6)
HistoryInPrompt == 6

UpperCase ==
  {"A", "B", "C", "D", "E", "F", "G", "H", "I", "J", "K", "L", "M",
   "N", "O", "P", "Q", "R", "S", "T", "U", "V", "W", "X", "Y", "Z"}

\* The words of the conversations: a text is the sequence of its words
WordBTC == <<"B", "T", "C">>

WordETH == <<"E", "T", "H">>

WordIs == <<"i", "s">>

WordI == <<"I">>

WordLong == <<"S", "T", "A", "B", "L", "E">>

\* The queries of the user and the replies of the provider
ChatQueries == {<<WordBTC>>, <<WordIs, WordETH>>, <<WordI, WordLong>>}

ChatReplies == {<<WordIs>>, <<WordETH, WordBTC>>}

\* A word that /\b[A-Z]{2,5}\b/ matches: 2 to 5 capital letters
isSymbol(word) ==
  /\ Len(word) >= 2
  /\ Len(word) <= 5
  /\ \A k \in 1..Len(word) : word[k] \in UpperCase

\* msg.content.match(/\b[A-Z]{2,5}\b/g)
symbolsIn(content) == SelectSeq(content, isSymbol)

\* tokenMentions after the forEach over the messages: each symbol once, in
\* order of insertion
RECURSIVE addMentions(_, _)
addMentions(mentions, matches) ==
  IF Len(matches) = 0 THEN mentions
  ELSE addMentions(IF \E k \in 1..Len(mentions) : mentions[k] = Head(matches)
                   THEN mentions ELSE Append(mentions, Head(matches)),
                   Tail(matches))

RECURSIVE tokenMentions(_, _)
tokenMentions(mentions, messages) ==
  IF Len(messages) = 0 THEN mentions
  ELSE tokenMentions(addMentions(mentions, symbolsIn(Head(messages).content)),
                     Tail(messages))

\* The symbols enhanceQueryWithContext names: those of history.slice(-4)
mentionsOf(messages) ==
  IF Len(messages) = 0 THEN <<>>
  ELSE tokenMentions(<<>>, sliceLast(messages, RecentMessages))

\* `${query} (Context: Previous discussion about ${contextTokens})`, the
\* symbols joined by ', '
enhancedQuery(query, mentions) ==
  IF Len(mentions) = 0 THEN query
  ELSE query \o <<<<"(", "C", "o", "n", "t", "e", "x", "t", ":">>,
                  <<"P", "r", "e", "v", "i", "o", "u", "s">>,
                  <<"d", "i", "s", "c", "u", "s", "s", "i", "o", "n">>,
                  <<"a", "b", "o", "u", "t">>>>
             \o [k \in 1..Len(mentions) |->
                   mentions[k] \o (IF k < Len(mentions) THEN <<",">> ELSE <<")">>)]

\* A ChatMessage of the history; cycle stands for its timestamp
HistoryMessage(role, content, cycle) ==
  [role |-> role, content |-> content, cycle |-> cycle]

\* messages of generateResponse: the system prompt, conversationHistory
\* .slice(-6) and the query it was given
promptMessages(query, conversationHistory, cycle) ==
  <<[role |-> "system", content |-> <<>>, cycle |-> 0]>>
    \o sliceLast(conversationHistory, HistoryInPrompt)
    \o <<[role |-> "user", content |-> query, cycle |-> cycle]>>

ConversationInit ==
  /\ cv_pc = "idle"
  /\ cv_cycle = 0
  /\ cv_history = <<>>
  /\ cv_query = <<>>
  /\ cv_enhanced = <<>>
  /\ cv_mentions = <<>>
  /\ cv_messages = <<>>

\* chatMessage: the user message is pushed, the query is enhanced from the
\* history and processQuery awaits the embedding of the enhanced query
CycleStart ==
  /\ cv_pc = "idle"
  /\ cv_cycle < MaxCycles
  /\ \E query \in ChatQueries :
       LET pushed == Append(cv_history, HistoryMessage("user", query, cv_cycle + 1))
       IN  /\ cv_history' = pushed
           /\ cv_query' = query
           /\ cv_mentions' = mentionsOf(pushed)
           /\ cv_enhanced' = enhancedQuery(query, mentionsOf(pushed))
  /\ cv_cycle' = cv_cycle + 1
  /\ cv_messages' = <<>>
  /\ cv_pc' = "processing"
  /\ UNCHANGED notConversation

\* Embedding and search have resolved: generateResponse sends its messages
CycleComplete ==
  /\ cv_pc = "processing"
  /\ cv_messages' = promptMessages(cv_enhanced, cv_history, cv_cycle)
  /\ cv_pc' = "completing"
  /\ UNCHANGED <<cv_cycle, cv_history, cv_query, cv_enhanced, cv_mentions>>
  /\ UNCHANGED notConversation

\* The completion arrives: the assistant message is pushed and the history
\* is cut
CycleRespond ==
  /\ cv_pc = "completing"
  /\ \E reply \in ChatReplies :
       cv_history' = capHistory(Append(cv_history,
                                       HistoryMessage("assistant", reply, cv_cycle)))
  /\ cv_pc' = "idle"
  /\ UNCHANGED <<cv_cycle, cv_query, cv_enhanced, cv_mentions, cv_messages>>
  /\ UNCHANGED notConversation

\* An awaited call rejects: the catch block emits an error
CycleFail ==
  /\ cv_pc \in {"processing", "completing"}
  /\ cv_pc' = "idle"
  /\ UNCHANGED <<cv_cycle, cv_history, cv_query, cv_enhanced, cv_mentions, cv_messages>>
  /\ UNCHANGED notConversation

NextConversation ==
  \/ CycleStart
  \/ CycleComplete
  \/ CycleRespond
  \/ CycleFail

-----------------------------------------------------------------------------
(* Specifications: one per component, each leaving the others idle *)

Init ==
  /\ ChunkInit /\ SessInit /\ IndexInit /\ HybridInit
  /\ ContextInit /\ ConfInit
  /\ LookupInit
  /\ RequestInit
  /\ EnsureInit
  /\ StartInit
  /\ CosineInit
  /\ EndToEndInit
  /\ DimInit
  /\ QueryInit
  /\ ConversationInit

\* The session component at rest
InitNoSession ==
  /\ ChunkInit /\ SessStart(NoQuota) /\ IndexInit /\ HybridInit
  /\ ContextInit /\ ConfInit
  /\ LookupInit
  /\ RequestInit
  /\ EnsureRest
  /\ StartInit
  /\ CosineInit
  /\ EndToEndInit
  /\ DimInit
  /\ QueryInit
  /\ ConversationInit

\* The socket sessions under every traffic quota, the rest idle
InitSession ==
  /\ ChunkInit /\ SessInit /\ IndexInit /\ HybridInit
  /\ ContextInit /\ ConfInit
  /\ LookupInit
  /\ RequestInit
  /\ EnsureRest
  /\ StartInit
  /\ CosineInit
  /\ EndToEndInit
  /\ DimInit
  /\ QueryInit
  /\ ConversationInit

\* The index set-up against any state of the vector store
InitEnsure ==
  /\ ChunkInit /\ SessStart(NoQuota) /\ IndexInit /\ HybridInit
  /\ ContextInit /\ ConfInit
  /\ LookupInit
  /\ RequestInit
  /\ EnsureInit
  /\ StartInit
  /\ CosineInit
  /\ EndToEndInit
  /\ DimInit
  /\ QueryInit
  /\ ConversationInit

SpecChunk == InitNoSession /\ [][NextChunk]_vars

SpecSession == InitSession /\ [][NextSession]_vars

SpecIndex == InitNoSession /\ [][NextIndex]_vars

SpecHybrid == InitNoSession /\ [][NextHybrid]_vars

SpecContext == InitNoSession /\ [][NextContext]_vars

SpecConfidence == InitNoSession /\ [][NextConf]_vars

SpecLookup == InitNoSession /\ [][NextLookup]_vars

SpecRequest == InitNoSession /\ [][NextRequest]_vars

SpecEnsure == InitEnsure /\ [][NextEnsure]_vars

SpecEnsureFair == SpecEnsure /\ FairEnsure

SpecStart == InitNoSession /\ [][NextStart]_vars

SpecCosine == InitNoSession /\ [][NextCosine]_vars

SpecEndToEnd == InitNoSession /\ [][NextEndToEnd]_vars

SpecDim == InitNoSession /\ [][NextDim]_vars

SpecQuery == InitNoSession /\ [][NextQuery]_vars

SpecConversation == InitNoSession /\ [][NextConversation]_vars

Next ==
  \/ NextChunk
  \/ NextSession
  \/ NextIndex
  \/ NextHybrid
  \/ NextContext
  \/ NextConf
  \/ NextLookup
  \/ NextRequest
  \/ NextEnsure
  \/ NextStart
  \/ NextCosine
  \/ NextEndToEnd
  \/ NextDim
  \/ NextQuery
  \/ NextConversation

Spec == Init /\ [][Next]_vars

-----------------------------------------------------------------------------
(* Chunking properties *)

SplitHasReturned == ck_pc \in {"returned", "done"}

\* C4: a text no longer than chunkSize comes back as exactly one fragment,
\* the input with its leading and trailing whitespace stripped.
C4_ShortTextTrimmed ==
  (SplitHasReturned /\ Len(ck_text) <= ck_size) => ck_out = <<trim(ck_text)>>

\* C5: the loop terminates because every iteration that does not reach the
\* end of the text moves start forward by max(chunkSize - overlap, 1), and
\* the returned list holds no empty fragment.
C5_NoEmptyFragment ==
  /\ ck_pc = "loop" => ck_start <= Len(ck_text)
  /\ SplitHasReturned => \A k \in 1..Len(ck_out) : Len(ck_out[k]) > 0

\* The forward-progress half of C5 alone: an iteration that stays in the
\* loop advances start by max(chunkSize - overlap, 1) and start stays inside
\* the text.
C5_ForwardProgress ==
  [][(ck_pc = "loop" /\ ck_pc' = "loop")
       => /\ ck_start' = ck_start + Max(ck_size - ck_overlap, 1)
          /\ ck_start' > ck_start
          /\ ck_start' <= Len(ck_text)]_vars

\* C6: the fragments of one parent carry chunkIndex 0..N-1 in order, ids
\* "<parentId>-chunk-<index>" that are pairwise distinct, and totalChunks = N,
\* N being the number of fragments left after the empty-fragment filter.
C6_DenseFragmentIds ==
  (ck_pc = "done" /\ ck_token # NoToken) =>
    LET N == Len(ck_frags)
    IN  /\ N = Len(ck_out)
        /\ Len(ck_chunks) > 0 =>
             N = Cardinality({k \in 1..Len(ck_chunks) : Len(ck_chunks[k]) > 0})
        /\ \A k \in 1..N :
             /\ ck_frags[k].chunkIndex = k - 1
             /\ ck_frags[k].id = ck_token.id \o "-chunk-" \o ToString(k - 1)
             /\ ck_frags[k].totalChunks = N
             /\ ck_frags[k].content = ck_out[k]
        /\ \A j, k \in 1..N : j # k => ck_frags[j].id # ck_frags[k].id

\* A parent whose windows include an all-whitespace one that the filter
\* removed, leaving several fragments
C6_Witness ==
  /\ ck_pc = "done"
  /\ ck_token # NoToken
  /\ Len(ck_frags) >= 2
  /\ Len(ck_chunks) > Len(ck_frags)

-----------------------------------------------------------------------------
(* Session properties *)

\* C2: once more than 20 messages have been appended to a session's history
\* (and no handler of the session is suspended), exactly the most recent 20
\* remain, in their original order.
C2_LastTwentyRemain ==
  \A s \in Sockets :
    (Len(appended[s]) > HistoryCap /\ inflight[s] = {}) =>
      history[s] = sliceLast(appended[s], HistoryCap)

-----------------------------------------------------------------------------
(* Indexing properties *)

\* Number of records index.upsert wrote in the batches that completed
WrittenCount ==
  LET done == {r \in 1..Len(up_requests) : up_requests[r].status = "done"}
  IN  IF done = {} THEN 0
      ELSE LET last == CHOOSE r \in done : \A q \in done : q <= r
           IN  up_requests[last].first + up_requests[last].size

\* C3: when an upsert batch fails, the response has success = false and
\* upsertedCount equal to the number of records written by the batches that
\* completed before the failure; the failed batch is not issued again and no
\* later batch is issued.
C3_FailedUpsertReportsWritten ==
  (ix_pc = "done" /\ up_response # NoResponse /\ ~up_response.success) =>
    /\ up_response.upsertedCount = WrittenCount
    /\ up_response.upsertedCount = Cardinality(store)
    /\ up_requests[Len(up_requests)].status = "failed"
    /\ \A r \in 1..(Len(up_requests) - 1) : up_requests[r].status = "done"

\* The half of C3 the code keeps: after a failed batch no batch is issued
\* again, and the batches issued are the consecutive ones before it.
C3_NoRetryAfterFailure ==
  (ix_pc = "done" /\ up_response # NoResponse /\ ~up_response.success) =>
    /\ ~up_response.success
    /\ up_requests[Len(up_requests)].status = "failed"
    /\ \A r \in 1..Len(up_requests) :
         /\ up_requests[r].first = (r - 1) * UPSERT_BATCH_SIZE
         /\ r < Len(up_requests) => up_requests[r].status = "done"
    /\ Cardinality(store) = WrittenCount

\* C10: generateBatchEmbeddings keeps the order of its input whatever the
\* order of the items in each response: the i-th vector is the embedding of
\* the i-th text and the output is as long as the input, so
\* processChunkedData pairs each fragment id with the embedding of that
\* fragment's own content.
C10_OrderPreserved ==
  /\ Len(em_results) <= Len(ix_chunks)
  /\ \A k \in 1..Len(em_results) :
       em_results[k] = embeddingOf(ix_chunks[k].content)
  /\ ix_pc \in {"upsertLoop", "upsertWait", "upsertDelay"} =>
       /\ Len(em_results) = Len(ix_chunks)
       /\ Len(ix_paired) = Len(ix_chunks)
       /\ \A k \in 1..Len(ix_paired) :
            /\ ix_paired[k].id = ix_chunks[k].id
            /\ ix_paired[k].content = ix_chunks[k].content
            /\ ix_paired[k].embedding = embeddingOf(ix_chunks[k].content)

\* Several batches of the HTTP service have been answered, the second out
\* of order, and the embeddings have been paired with the chunks
C10_Witness ==
  /\ ix_provider = "openai"
  /\ ix_pc = "upsertLoop"
  /\ Len(em_requests) >= 2
  /\ ~em_requests[2].inOrder
  /\ Len(ix_paired) > EMBED_BATCH_SIZE

-----------------------------------------------------------------------------
(* Hybrid search properties *)

\* The keywords of a query, read off its lowered text: the maximal runs of
\* non-space characters longer than 2, as <<first, last>> positions
KeywordSpans(query) ==
  {span \in (1..Len(query)) \X (1..Len(query)) :
     /\ span[2] - span[1] + 1 > 2
     /\ \A k \in span[1]..span[2] : query[k] # " "
     /\ span[1] = 1 \/ query[span[1] - 1] = " "
     /\ span[2] = Len(query) \/ query[span[2] + 1] = " "}

\* Number of keywords of the query found in the content, case ignored
KeywordHits(query, content) ==
  Cardinality({span \in KeywordSpans(query) :
     \E at \in 0..(Len(content) - (span[2] - span[1] + 1)) :
       \A k \in 0..(span[2] - span[1]) :
         lowerChar(content[at + k + 1]) = lowerChar(query[span[1] + k])})

\* C7: every returned candidate has the score min(s + 0.1 * k, 1.0), s being
\* the store's score and k the number of query keywords found in its
\* content; so the boosted score is at least s and at most 1.0, and the
\* query "BTC price today" turns the scores [0.75, 0.60] into [0.85, 0.60]
\* when only the first content holds "BTC".
C7_BoostedScore ==
  hs_pc = "done" =>
    /\ \A r \in 1..Len(hs_out) :
         \E c \in 1..Len(hs_semantic) :
           /\ hs_semantic[c].id = hs_out[r].id
           /\ hs_out[r].score =
                Min(hs_semantic[c].score
                      + 10 * KeywordHits(hs_query, hs_semantic[c].content), 100)
           /\ hs_out[r].score >= hs_semantic[c].score
           /\ hs_out[r].score <= 100
    /\ ( /\ hs_query = QueryBtcPriceToday
         /\ hs_topK = 2
         /\ Len(hs_semantic) = 2
         /\ hs_semantic[1].score = 75 /\ hs_semantic[1].content = ContentBtcIsUp
         /\ hs_semantic[2].score = 60 /\ hs_semantic[2].content = ContentEthGasFee )
       => /\ Len(hs_out) = 2
          /\ hs_out[1].score = 85
          /\ hs_out[2].score = 60

\* A candidate whose boost is cut by the cap, beside one without a keyword
C7_Witness ==
  /\ hs_pc = "done"
  /\ Len(hs_out) = 2
  /\ hs_out[1].score = 100
  /\ \E c \in 1..Len(hs_semantic) :
       /\ hs_semantic[c].id = hs_out[1].id
       /\ hs_semantic[c].score = 95
       /\ KeywordHits(hs_query, hs_semantic[c].content) = 2
  /\ \E c \in 1..Len(hs_semantic) :
       /\ hs_semantic[c].id = hs_out[2].id
       /\ KeywordHits(hs_query, hs_semantic[c].content) = 0

-----------------------------------------------------------------------------
(* Context assembly properties *)

\* C1: the string prepareContext returns is never longer than
\* maxContextLength, also when several group blocks are joined by a
\* separator and when there are no results (the sentinel string).
C1_ContextWithinMax ==
  cx_pc = "done" => Len(cx_out) <= cx_max

\* The same bound for one retained block, which the code does keep: the
\* blocks alone, without their separators, fit maxContextLength.
C1_BlocksWithinMax ==
  (cx_pc = "done" /\ Len(cx_results) > 0) =>
    Len(join(cx_parts, <<>>)) <= cx_max

-----------------------------------------------------------------------------
(* Confidence properties *)

\* C8: calculateConfidence gives 0 for no results and otherwise
\* min(avg(score) + min(count(score > 0.8) / 5, 0.2), 1.0); for scores in
\* [0, 1] the value lies in [0, 1].
C8_ConfidenceFormula ==
  cf_calls > 0 =>
    LET n == Len(cf_results)
        total == sumScores(cf_results)
        high == Cardinality({k \in 1..n : cf_results[k] > 80})
        bonus == IF 20 * high < 20 THEN 20 * high ELSE 20
        num == cf_conf[1]
        den == cf_conf[2]
    IN  /\ den > 0
        /\ n = 0 => num = 0
        /\ n > 0 =>
             IF total + bonus * n <= 100 * n
             THEN num * n = (total + bonus * n) * den
             ELSE num = 100 * den
        /\ 0 <= num /\ num <= 100 * den

\* A list whose average plus bonus passes 1.0 and is cut back
C8_Witness ==
  /\ cf_calls > 0
  /\ Len(cf_results) = 2
  /\ cf_results[1] = 90
  /\ cf_results[2] = 100
  /\ cf_conf[1] = 100 * cf_conf[2]

\* C9: while the diversity bonus of a result list is below its 0.2 cap,
\* one more result with a score above 0.8 (and at most 1.0) never lowers the
\* confidence.
C9_HighScoreNeverLowers ==
  [][( /\ FracLeq(diversityBonus(cf_results), <<BonusCap, 1>>)
       /\ ~FracLeq(<<BonusCap, 1>>, diversityBonus(cf_results))
       /\ \E x \in ConfidenceScores :
            /\ x > 80 /\ x <= 100
            /\ cf_results' = Append(cf_results, x) )
     => FracLeq(cf_conf, cf_conf')]_vars

\* A list of lower scores that has just grown by a score above 0.8
C9_Witness ==
  /\ cf_calls = 2
  /\ Len(cf_results) = 3
  /\ cf_results[1] = 80
  /\ cf_results[2] = 50
  /\ cf_results[3] = 81

-----------------------------------------------------------------------------
(* Identifier lookup properties *)

\* The names of the calls searchToken has issued, in order
CallOps == [k \in 1..Len(st_calls) |-> st_calls[k].op]

\* C11: searchToken issues its lookups in the order exact-symbol, exact-id,
\* semantic: the id query only after an empty symbol answer, the embedding
\* call and the semantic query only after both exact answers were empty, and
\* when all three answers are empty the result is the empty list.
C11_LookupOrder ==
  [][/\ CallOps' \in {<<>>,
                      <<"searchByTokenSymbol">>,
                      <<"searchByTokenSymbol", "searchByTokenId">>,
                      <<"searchByTokenSymbol", "searchByTokenId",
                        "generateQueryEmbedding">>,
                      <<"searchByTokenSymbol", "searchByTokenId",
                        "generateQueryEmbedding", "searchSimilar">>}
     /\ Len(st_calls') > Len(st_calls) =>
          /\ Len(st_calls') = Len(st_calls) + 1
          /\ SubSeq(st_calls', 1, Len(st_calls)) = st_calls
          /\ st_calls'[Len(st_calls')].op \in
               {"searchByTokenId", "generateQueryEmbedding", "searchSimilar"}
               => st_results' = <<>>
          /\ st_calls'[Len(st_calls')].op = "searchByTokenId" => st_pc = "symbol"
          /\ st_calls'[Len(st_calls')].op = "generateQueryEmbedding" => st_pc = "id"
     /\ (st_pc' = "done" /\ st_pc = "semantic" /\ st_results' = <<>>) =>
          st_out' = <<>>
     /\ st_pc' = "done" => st_out' = st_results']_vars

\* All three lookups were made and all came back empty
C11_Witness ==
  /\ st_pc = "done"
  /\ Len(st_calls) = 4
  /\ st_out = <<>>

-----------------------------------------------------------------------------
(* Input validation properties *)

\* C12: invalid input is rejected before any external call and without
\* side effects: a chat request whose query is empty or not a string, and an
\* index request whose list is empty or holds a record without id, name or
\* symbol, issues no embedding, vector-store or completion call and leaves
\* the index unchanged.
C12_InvalidRejectedEarly ==
  /\ (rq_route = "chat" /\ InvalidQuery(rq_body.query)) =>
       rq_calls = <<>> /\ rq_indexed = rq_before
  /\ (rq_route = "index" /\ InvalidTokensOrRecord(rq_body.tokens)) =>
       rq_calls = <<>> /\ rq_indexed = rq_before

\* The part of C12 the routes keep: a body their own guard rejects causes no
\* call and no change of the index.
C12_GuardedRejectedEarly ==
  /\ (rq_route = "chat" /\ InvalidQuery(rq_body.query)) =>
       rq_calls = <<>> /\ rq_indexed = rq_before /\ rq_status = 400
  /\ (rq_route = "index" /\ InvalidTokens(rq_body.tokens)) =>
       rq_calls = <<>> /\ rq_indexed = rq_before /\ rq_status = 400

-----------------------------------------------------------------------------
(* Index set-up properties *)

\* C13: initializeIndex is idempotent: when the configured index exists it
\* issues no create call and does not poll; when it is absent it issues
\* exactly one create call (cosine metric, the given dimension) and polls
\* only after it; two calls in sequence create the index at most once.
C13_InitializeIdempotent ==
  /\ ei_created <= 1
  /\ Cardinality({index \in ei_remote : index.name = IndexName}) <= 1
  /\ ei_listed = "exists" =>
       /\ ei_calls = <<ListCall>>
       /\ ei_probes = 0
       /\ ei_pc = "returned"
  /\ ei_listed = "absent" =>
       ei_calls = <<ListCall,
                    [op |-> "createIndex", dimension |-> ei_dimension,
                     metric |-> "cosine"]>>
  /\ ei_listed = "unknown" => Len(ei_calls) <= 1
  /\ ei_probes > 0 =>
       /\ ei_listed = "absent"
       /\ ei_pc \notin {"listing", "creating"}
       /\ ei_error \in {"none", "timeout"}

\* The second of two calls found the index the first one created
C13_Witness ==
  /\ ei_round = 2
  /\ ei_created = 1
  /\ ei_listed = "exists"
  /\ ei_pc = "returned"

\* C14: readiness polling always terminates: it issues at most maxAttempts
\* (60) probes, returns as soon as a probe succeeds, goes on after a failing
\* probe, and ends with an error when all maxAttempts probes failed.
C14_PollingTerminates ==
  /\ [](/\ ei_probes <= MaxAttempts
        /\ ei_pc \in {"polling", "waiting"} => ei_probes = ei_i + (IF ei_pc = "waiting" THEN 1 ELSE 0)
        /\ ei_pc = "probing" => ei_probes = ei_i + 1
        /\ ei_error = "timeout" => ei_pc = "thrown" /\ ei_probes = MaxAttempts
        /\ (ei_pc = "returned" /\ ei_listed = "absent") => ei_probes = ei_i + 1)
  /\ [][ei_pc = "probing" => ei_pc' \in {"probing", "returned", "waiting"}]_vars
  /\ (ei_pc = "polling") ~> (ei_pc \in {"returned", "thrown"})

\* Every probe failed and the polling ended with the error
C14_Witness ==
  /\ ei_pc = "thrown"
  /\ ei_error = "timeout"
  /\ ei_probes = 60

-----------------------------------------------------------------------------
(* Start-up properties *)

\* A request or connection the process has begun to handle
TrafficAccepted == \E r \in Arrivals : su_reqs[r] # "none"

\* C15: a configuration error is fatal at start-up: the process never
\* begins accepting HTTP or socket traffic unless configuration validation
\* and the chatbot initialization have completed successfully first.
C15_NoTrafficBeforeInit ==
  TrafficAccepted => (su_validated /\ su_initialized /\ missing(su_env) = {})

\* The part of C15 the server entry point keeps: it listens only after
\* validateConfig has passed and chatbotService.initialize() has resolved.
C15_ServerListensAfterInit ==
  (su_entry = "server" /\ (su_pc = "listening" \/ TrafficAccepted)) =>
    (su_validated /\ su_initialized /\ missing(su_env) = {})

-----------------------------------------------------------------------------
(* Cosine similarity properties *)

IsZeroVector(vec) == \A k \in 1..Len(vec) : vec[k] = 0

\* C16: calculateCosineSimilarity is symmetric, its result lies in [-1, 1]
\* for vectors of equal length, and it returns 0 without dividing when
\* either vector has zero norm.
C16_CosineSymmetricBounded ==
  (cs_pc = "done" /\ Len(cs_a) = Len(cs_b)) =>
    /\ cs_out = calculateCosineSimilarity(cs_b, cs_a)
    /\ FracLeq(<<-1, 1>>, cs_out.value) /\ FracLeq(cs_out.value, <<1, 1>>)
    /\ (IsZeroVector(cs_a) \/ IsZeroVector(cs_b)) =>
         (~cs_out.divided /\ cs_out.value[1] = 0)

\* The part of C16 the code keeps: symmetry and the guard of the division.
C16_SymmetricAndGuarded ==
  (cs_pc = "done" /\ Len(cs_a) = Len(cs_b)) =>
    /\ cs_out = calculateCosineSimilarity(cs_b, cs_a)
    /\ (IsZeroVector(cs_a) \/ IsZeroVector(cs_b)) =>
         (~cs_out.divided /\ cs_out.value[1] = 0)
    /\ cs_out.divided => ~(IsZeroVector(cs_a) \/ IsZeroVector(cs_b))

-----------------------------------------------------------------------------
(* End-to-end ordering properties *)

\* The positions (in the parent's text) of the fragments in the order in
\* which the context shows them
EmittedPositions ==
  LET digits == SelectSeq(ee_out, LAMBDA c : \E p \in 1..Len(Digits) : Digits[p] = c)
  IN  [k \in 1..Len(digits) |-> CHOOSE p \in 1..Len(Digits) : Digits[p] = digits[k]]

\* C17: after an entity with several fragments is indexed and its
\* fragments are retrieved, the context shows them in ascending order of
\* their original chunk index whatever the score order; the chunk index
\* stored with each vector equals the fragment's index within its parent.
C17_ReadingOrderRestored ==
  /\ ee_pc = "done" =>
       /\ Len(EmittedPositions) = Len(ee_results)
       /\ \A k \in 1..(Len(EmittedPositions) - 1) :
            EmittedPositions[k] < EmittedPositions[k + 1]
  /\ \A v \in ee_store : \E k \in 1..Len(ee_chunks) :
       /\ ee_chunks[k].id = v.id
       /\ ee_chunks[k].chunkIndex = v.metadata.chunkIndex

\* What the code does instead: the fragments are shown in the order of
\* retrieval, every stored chunk index being 0.
C17_RetrievalOrderKept ==
  /\ ee_pc = "done" =>
       /\ Len(EmittedPositions) = Len(ee_results)
       /\ \A k \in 1..Len(ee_results) :
            ee_results[k].content = <<"f", Digits[EmittedPositions[k]]>>
  /\ \A v \in ee_store : v.metadata.chunkIndex = 0

-----------------------------------------------------------------------------
(* Sequencing of the cycles of one session *)

\* The user messages in the history of s whose cycle has not yet answered
PendingUserMessages(s) ==
  {k \in 1..Len(history[s]) :
     /\ history[s][k].role = "user"
     /\ history[s][k].timestamp \in inflight[s]}

\* C18: within one session the query cycles are strictly sequential: a
\* second chatMessage is not processed until the previous cycle has
\* appended its reply and emitted its response, so at most one handler is
\* suspended per socket and the history never holds two user messages whose
\* cycles are both in flight.
C18_CyclesSequential ==
  \A s \in Sockets :
    /\ Cardinality(inflight[s]) <= 1
    /\ Cardinality(PendingUserMessages(s)) <= 1

\* Across sessions nothing is shared: the pending user messages of a
\* session are those of its own suspended handlers.
C18_PendingAreOwn ==
  \A s \in Sockets : Cardinality(PendingUserMessages(s)) <= Cardinality(inflight[s])

-----------------------------------------------------------------------------
(* Vector length properties *)

\* C19: every vector sent to the store for one index, in an upsert or as
\* the query vector of searchSimilar, searchByTokenId or
\* searchByTokenSymbol, has the length of the dimension the index was
\* created with.
C19_VectorLengthIsDimension ==
  \A k \in 1..Len(dm_sent) : dm_sent[k].length = dm_dimension

\* The vectors that come from the embedding model have the index's
\* dimension; the lookups by id and by symbol send 1536 components
\* whatever the index.
C19_EmbeddedLengthIsDimension ==
  \A k \in 1..Len(dm_sent) :
    IF dm_sent[k].op \in {"upsert", "searchSimilar"}
      THEN dm_sent[k].length = dm_dimension
      ELSE dm_sent[k].length = DummyVectorLength

-----------------------------------------------------------------------------
(* Batch sequencing of generateBatchEmbeddings and upsertEmbeddings *)

\* The requests are consecutive batches of 1 to 100 items from the start of
\* an input of the given length, all but the last one completed
ConsecutiveBatches(requests, length) ==
  /\ \A k \in 1..Len(requests) :
       /\ requests[k].size \in 1..EMBED_BATCH_SIZE
       /\ requests[k].first = (IF k = 1 THEN 0
                               ELSE requests[k - 1].first + requests[k - 1].size)
       /\ requests[k].first + requests[k].size <= length
       /\ k < Len(requests) => requests[k].status = "done"
  /\ Cardinality({k \in 1..Len(requests) : requests[k].status = "pending"}) <= 1

\* A request is added to the list
Issued(requests, requestsAfter) == Len(requestsAfter) > Len(requests)

\* The pending last request of the list completes
Completed(requests, requestsAfter) ==
  /\ Len(requests) > 0
  /\ requests[Len(requests)].status = "pending"
  /\ requestsAfter[Len(requests)].status = "done"

\* The last request of the list reaches the end of the input
IsFinalBatch(requests, length) ==
  requests[Len(requests)].first + requests[Len(requests)].size = length

\* C20: generateBatchEmbeddings and upsertEmbeddings partition their input
\* in order into consecutive batches of at most 100 items with at most one
\* batch in flight: a batch is issued only when the previous one has
\* completed and, after the pacing delay, the loop is back at its head; the
\* completion of a batch that is not the last leads to the delay, that of
\* the last one does not.
C20_BatchesSequential ==
  /\ [](/\ ConsecutiveBatches(em_requests, Len(ix_chunks))
        /\ ConsecutiveBatches(up_requests, Len(ix_paired))
        /\ ix_pc \in {"upsertLoop", "upsertWait", "upsertDelay"} =>
             /\ em_requests # <<>> => IsFinalBatch(em_requests, Len(ix_chunks))
             /\ \A k \in 1..Len(em_requests) : em_requests[k].status = "done")
  /\ [][/\ Issued(em_requests, em_requests') =>
             /\ ix_pc = "embedLoop"
             /\ \A k \in 1..Len(em_requests) : em_requests[k].status = "done"
        /\ Issued(up_requests, up_requests') =>
             /\ ix_pc = "upsertLoop"
             /\ \A k \in 1..Len(up_requests) : up_requests[k].status = "done"
        /\ Completed(em_requests, em_requests') =>
             IF IsFinalBatch(em_requests, Len(ix_chunks))
               THEN ix_pc' = "embedLoop"
               ELSE ix_pc' = "embedDelay"
        /\ Completed(up_requests, up_requests') =>
             IF IsFinalBatch(up_requests, Len(ix_paired))
               THEN ix_pc' = "upsertLoop"
               ELSE ix_pc' = "upsertDelay"
        /\ ix_pc = "embedDelay" => ix_pc' = "embedLoop" /\ em_requests' = em_requests
        /\ ix_pc = "upsertDelay" => ix_pc' = "upsertLoop" /\ up_requests' = up_requests
       ]_vars

\* C20 witness: a run of the HTTP service with several embedding batches
\* and several upsert batches has returned
C20_Witness ==
  /\ ix_pc = "done"
  /\ ix_provider = "openai"
  /\ Len(em_requests) >= 2
  /\ Len(up_requests) >= 2
  /\ up_requests[Len(up_requests)].status = "done"
  /\ Len(ix_chunks) = 2 * EMBED_BATCH_SIZE

-----------------------------------------------------------------------------
(* processQuery properties *)

\* The calls of request r, in the order issued
CallsOf(r) == SelectSeq(pq_calls, LAMBDA c : c.req = r)

\* The order of the steps of processQuery
StepOrder == <<"embed", "query", "rank", "assemble", "completion">>

\* The order of its external calls
CallOrder == <<"embeddings", "query", "completion">>

-----------------------------------------------------------------------------
(* hybridSearch: selection properties *)

\* The boosted score of candidate c of the store's answer
BoostedOf(c) ==
  Min(hs_semantic[c].score + 10 * KeywordHits(hs_query, hs_semantic[c].content), 100)

\* The candidates of the store's answer that were returned
ReturnedCandidates ==
  {c \in 1..Len(hs_semantic) : \E r \in 1..Len(hs_out) : hs_out[r].id = hs_semantic[c].id}

\* C22: hybridSearch requests 2 * topK candidates and returns at most topK
\* of them in non-increasing order of boosted score; every returned result
\* is one of the store's candidates (same id, metadata and content), each at
\* most once, and no candidate left out has a boosted score greater than
\* that of a returned one.
C22_TopKByBoostedScore ==
  /\ hs_pc # "idle" => hs_requested = 2 * hs_topK
  /\ hs_pc = "done" =>
       /\ Len(hs_semantic) <= hs_requested
       /\ Len(hs_out) = Min(hs_topK, Len(hs_semantic))
       /\ \A r \in 1..(Len(hs_out) - 1) : hs_out[r].score >= hs_out[r + 1].score
       /\ \A r \in 1..Len(hs_out) :
            \E c \in 1..Len(hs_semantic) :
              /\ hs_out[r].id = hs_semantic[c].id
              /\ hs_out[r].metadata = hs_semantic[c].metadata
              /\ hs_out[r].content = hs_semantic[c].content
              /\ hs_out[r].score = BoostedOf(c)
       /\ \A r1, r2 \in 1..Len(hs_out) : r1 # r2 => hs_out[r1].id # hs_out[r2].id
       /\ \A c \in 1..Len(hs_semantic) :
            c \notin ReturnedCandidates =>
              \A r \in 1..Len(hs_out) : BoostedOf(c) <= hs_out[r].score

\* C22 witness: of three candidates the boost lifts the third above the
\* first two, and the one left out is the second
C22_Witness ==
  /\ hs_pc = "done"
  /\ hs_topK = 2
  /\ Len(hs_semantic) = 3
  /\ Len(hs_out) = 2
  /\ hs_out[1].id = 3
  /\ hs_out[2].id = 1
  /\ hs_semantic[2].score > hs_semantic[3].score

-----------------------------------------------------------------------------
(* Context assembly: whole fragments, stopping and group order *)

\* The parent ids of the results in order of first appearance
FirstAppearance ==
  LET firsts == {k \in 1..Len(cx_results) :
                   \A j \in 1..(k - 1) :
                     cx_results[j].metadata.tokenId # cx_results[k].metadata.tokenId}
      nth(g) == CHOOSE k \in firsts : Cardinality({j \in firsts : j < k}) = g - 1
  IN  [g \in 1..Cardinality(firsts) |-> cx_results[nth(g)].metadata.tokenId]

\* The fragments of the g-th group in the order in which the assembler
\* takes them
FragmentsOfGroup(g) == sortByChunkIndex(groupOf(cx_results, FirstAppearance[g]))

\* The header of the g-th group
HeaderOfGroup(g) ==
  groupHeader(FragmentsOfGroup(g)[1].metadata.tokenName,
              FragmentsOfGroup(g)[1].metadata.tokenSymbol)

\* The header of the g-th group followed by its first n fragments, each
\* whole and ended by a line feed
RECURSIVE BlockOf(_, _)
BlockOf(g, n) ==
  IF n = 0 THEN HeaderOfGroup(g)
  ELSE BlockOf(g, n - 1) \o FragmentsOfGroup(g)[n].content \o <<"\n">>

\* The number of fragments in the g-th emitted block
FragmentsIn(g) ==
  CHOOSE n \in 0..Len(FragmentsOfGroup(g)) : cx_parts[g] = BlockOf(g, n)

\* The length of the blocks emitted before the g-th
LengthBefore(g) == Len(join(SubSeq(cx_parts, 1, g - 1), <<>>))

\* C23: the assembler never cuts a fragment: each emitted block is the
\* header of its group followed by whole fragments; within a group it stops
\* at the first fragment that would overflow maxLength; once a block is
\* discarded for overflow no later group contributes; the groups appear in
\* order of first appearance of their parent id.
C23_WholeFragmentsOnly ==
  (cx_pc = "done" /\ Len(cx_results) > 0) =>
    /\ Len(cx_parts) <= Len(FirstAppearance)
    /\ cx_out = join(cx_parts, <<"\n">>)
    /\ \A g \in 1..Len(cx_parts) :
         /\ \E n \in 0..Len(FragmentsOfGroup(g)) : cx_parts[g] = BlockOf(g, n)
         /\ LengthBefore(g) + Len(cx_parts[g]) <= cx_max
         /\ FragmentsIn(g) < Len(FragmentsOfGroup(g)) =>
              LengthBefore(g) + Len(BlockOf(g, FragmentsIn(g) + 1)) > cx_max
    /\ Len(cx_parts) < Len(FirstAppearance) =>
         LengthBefore(Len(cx_parts) + 1) + Len(HeaderOfGroup(Len(cx_parts) + 1)) > cx_max

\* C23 witness: the first group lost its second fragment to the limit and
\* the second group was discarded
C23_Witness ==
  /\ cx_pc = "done"
  /\ Len(cx_results) = 3
  /\ Len(FirstAppearance) = 2
  /\ Len(cx_parts) = 1
  /\ Len(FragmentsOfGroup(1)) = 2
  /\ FragmentsIn(1) = 1

\* C30: every emitted block holds its header followed by at least one whole
\* fragment, and for a non-empty result list the returned context is never
\* the empty string: a group whose header fits but whose first fragment does
\* not is not emitted as a header-only block.
C30_NoHeaderOnlyBlock ==
  (cx_pc = "done" /\ Len(cx_results) > 0) =>
    /\ cx_out # <<>>
    /\ \A g \in 1..Len(cx_parts) : FragmentsIn(g) >= 1

\* What the code keeps instead: every emitted block starts with the header
\* of its group, and a block without fragments is emitted when the header
\* fits and the first fragment does not.
C30_HeaderAlwaysPresent ==
  (cx_pc = "done" /\ Len(cx_results) > 0) =>
    \A g \in 1..Len(cx_parts) :
      /\ SubSeq(cx_parts[g], 1, Len(HeaderOfGroup(g))) = HeaderOfGroup(g)
      /\ FragmentsIn(g) = 0 =>
           LengthBefore(g) + Len(BlockOf(g, 1)) > cx_max

-----------------------------------------------------------------------------
(* Chunking: windows, word boundaries and coverage *)

\* The window of the iteration at ck_start: 1-based first and last position
WindowFirst == ck_start + 1

WindowLast == IF ck_start + ck_size < Len(ck_text) THEN ck_start + ck_size
              ELSE Len(ck_text)

\* The 1-based position of the last space of the window, 0 when there is
\* none
WindowLastSpace ==
  LET spaces == {p \in WindowFirst..WindowLast : ck_text[p] = " "}
  IN  IF spaces = {} THEN 0 ELSE CHOOSE p \in spaces : \A q \in spaces : q <= p

\* The window is cut back: it does not reach the end of the text and the
\* offset of its last space is greater than 0.8 * chunkSize
WindowIsCut ==
  /\ WindowLast < Len(ck_text)
  /\ WindowLastSpace > 0
  /\ 10 * (WindowLastSpace - WindowFirst) > 8 * ck_size

\* The 1-based position of the last character the fragment of this window
\* may hold
FragmentLast == IF WindowIsCut THEN WindowLastSpace - 1 ELSE WindowLast

\* s is t without its leading and trailing whitespace
IsStripped(s, t) ==
  LET inner == {p \in 1..Len(t) : ~IsSpace(t[p])}
  IN  IF inner = {} THEN s = <<>>
      ELSE \E a, b \in inner :
             /\ \A p \in inner : a <= p /\ p <= b
             /\ s = SubSeq(t, a, b)

\* C24: every fragment splitTextIntoChunks returns for a text longer than
\* chunkSize has length <= chunkSize and is a whitespace-stripped contiguous
\* substring of the text; a window that does not reach the end of the text
\* is cut back to its last space only when that space lies past
\* 0.8 * chunkSize, and the final window is never cut back.
C24_FragmentsWithinWindow ==
  /\ []((SplitHasReturned /\ Len(ck_text) > ck_size) =>
          \A k \in 1..Len(ck_out) :
            /\ Len(ck_out[k]) <= ck_size
            /\ \E a \in 1..Len(ck_text), b \in 1..Len(ck_text) :
                 /\ ck_out[k] = SubSeq(ck_text, a, b)
                 /\ ~IsSpace(ck_text[a])
                 /\ ~IsSpace(ck_text[b]))
  /\ [][Len(ck_chunks') > Len(ck_chunks) =>
          /\ ck_chunks' = Append(ck_chunks, ck_chunks'[Len(ck_chunks')])
          /\ IsStripped(ck_chunks'[Len(ck_chunks')],
                        SubSeq(ck_text, WindowFirst, FragmentLast))
          /\ WindowLast = Len(ck_text) => FragmentLast = WindowLast
       ]_vars

\* C24 witness: a text of two windows, the first cut back at a space past
\* 80% of chunkSize, the last one left whole
C24_Witness ==
  /\ SplitHasReturned
  /\ ck_size = WordBreakChunkSize
  /\ ck_overlap = 0
  /\ ck_text \in LongTexts
  /\ Len(ck_out) = 2
  /\ Len(ck_out[1]) = 9

\* C26: for 0 <= overlap < chunkSize the fragments jointly cover the text:
\* no character other than whitespace lies between the end of the fragment
\* of window k and the start of window k + 1.
C26_FragmentsCoverText ==
  [][(ck_pc = "loop" /\ ck_pc' = "loop" /\ 0 <= ck_overlap /\ ck_overlap < ck_size) =>
       \A p \in (FragmentLast + 1)..ck_start' : IsSpace(ck_text[p])
    ]_vars

\* What the code keeps: nothing is skipped between two windows, the next
\* window starts at most chunkSize after the previous one.
C26_WindowsAdjoin ==
  [][(ck_pc = "loop" /\ ck_pc' = "loop" /\ 0 <= ck_overlap /\ ck_overlap < ck_size) =>
       ck_start' <= WindowLast
    ]_vars

-----------------------------------------------------------------------------
(* Sessions: independence and the bound of the stored history *)

\* Socket t is untouched by a step
Untouched(t) ==
  /\ history'[t] = history[t]
  /\ appended'[t] = appended[t]
  /\ inflight'[t] = inflight[t]
  /\ sockets'[t] = sockets[t]
  /\ lastEmit'[t] = lastEmit[t]
  /\ (t \in sessions') = (t \in sessions)

\* C25: sessions are independent: under every interleaving of the connect,
\* chatMessage and disconnect events of several sockets, an event of one
\* socket leaves the history (and the registration) of every other socket's
\* session as it was, and a disconnect removes exactly that socket's session
\* from the registry.
C25_SessionsIndependent ==
  /\ [](\A s \in Sockets : s \in sessions <=> sockets[s] = "connected")
  /\ [][\E s \in Sockets :
          /\ \A t \in Sockets \ {s} : Untouched(t)
          /\ (sockets[s] = "connected" /\ sockets'[s] = "closed") =>
               sessions' = sessions \ {s}
          /\ (sockets[s] = "new" /\ sockets'[s] = "connected") =>
               sessions' = sessions \cup {s} /\ history'[s] = <<>>
       ]_vars

\* C25 witness: two sessions with different histories, one of them with a
\* cycle in flight, after the other socket has answered
C25_Witness ==
  /\ sessions = {"s1", "s2"}
  /\ Len(history["s1"]) = 2
  /\ Len(history["s2"]) = 1
  /\ inflight["s2"] # {}
  /\ inflight["s1"] = {}

\* C27: whenever no chatMessage handler of a session is in flight, the
\* stored history of the session has at most 20 entries, also after cycles
\* whose processing failed after the user message was appended.
C27_QuiescentHistoryCapped ==
  \A s \in Sockets : inflight[s] = {} => Len(history[s]) <= HistoryCap

\* What the code keeps: after a cycle that answered, the history has at
\* most 20 entries; each failed cycle leaves one more message.
C27_CappedUpToFailures ==
  \A s \in Sockets : inflight[s] = {} => Len(history[s]) <= HistoryCap + failures

-----------------------------------------------------------------------------
(* Completion request properties *)

\* The symbols of the messages of earlier cycles among the last four
\* messages before the current query
EarlierSymbols ==
  LET earlier == SelectSeq(cv_history, LAMBDA m : m.cycle < cv_cycle)
      recent == sliceLast(earlier, RecentMessages)
  IN  UNION {{recent[k].content[w] : w \in 1..Len(recent[k].content)} :
               k \in 1..Len(recent)}
        \cap {WordBTC, WordETH}

\* C28: in the message list sent to the completion provider for a chat
\* cycle, the current user query occurs exactly once, as the final user
\* message, and is not among the history messages before it; the symbols
\* named in the enhancement note come only from messages that precede the
\* current query.
C28_QueryOnceInPrompt ==
  cv_pc = "completing" =>
    /\ Cardinality({k \in 1..Len(cv_messages) : cv_messages[k].cycle = cv_cycle}) = 1
    /\ cv_messages[Len(cv_messages)].cycle = cv_cycle
    /\ cv_messages[Len(cv_messages)].role = "user"
    /\ \A k \in 1..Len(cv_mentions) : cv_mentions[k] \in EarlierSymbols

\* What the code keeps: the list starts with the system prompt, ends with
\* the enhanced query, and holds at most the last six stored messages
\* between them.
C28_PromptShape ==
  cv_pc = "completing" =>
    /\ cv_messages[1].role = "system"
    /\ cv_messages[Len(cv_messages)] =
         [role |-> "user", content |-> cv_enhanced, cycle |-> cv_cycle]
    /\ Len(cv_messages) <= HistoryInPrompt + 2
    /\ SubSeq(cv_messages, 2, Len(cv_messages) - 1) =
         sliceLast(cv_history, HistoryInPrompt)

-----------------------------------------------------------------------------
(* Serverless entry point properties *)

\* The requests of the serverless entry that are awaiting initialize()
Initializing == {r \in Arrivals : su_reqs[r] = "init"}

\* The requests of the serverless entry whose route is using the service
UsingService == {r \in Arrivals : su_reqs[r] \in {"handling", "ok"}}

\* C29: in the serverless entry point, under every interleaving of
\* concurrent requests, no handler calls an operation of the ChatbotService
\* before its initialize() has completed successfully, initialize() runs at
\* most once at a time, and after a failed initialize() a later request
\* initializes again instead of using the uninitialized service.
C29_InitializedBeforeUse ==
  su_entry = "serverless" =>
    /\ UsingService # {} => su_initialized
    /\ Cardinality(Initializing) <= 1
    /\ (su_service = "set" /\ ~su_initialized) => Initializing # {}

\* What the code keeps: initialize() is awaited by at most one request at a
\* time, and only by the request that constructed the service.
C29_SingleInitializer ==
  su_entry = "serverless" =>
    /\ Cardinality(Initializing) <= 1
    /\ Initializing # {} => su_service = "set"
    /\ su_initialized => su_service = "set"

=============================================================================
